---- MODULE Spec2Model ----
(***************************************************************************)
(* A model of the spyce dashboard: the Job records the dashboard persists  *)
(* through DatabaseService, the API routes the dashboard calls, the agent  *)
(* orchestrator and the discovery / crawling / research agents.            *)
(*                                                                         *)
(* The module holds several specifications over one set of variables; each *)
(* one moves the variables of one part of the program and leaves the rest  *)
(* as they are:                                                            *)
(*   SpecJobs   the dashboard job flows, the routes and the jobs table     *)
(*   SpecOrch   the AgentOrchestrator registry and executeTask             *)
(*   SpecExec   one execute call of an agent and its external API calls    *)
(*   SpecCrawl  one batchCrawl call of the crawling agent                   *)
(*   SpecMsg    one message delivered to an agent's handleMessage           *)
(*   SpecQueue  the orchestrator's message queue and processing loops, and  *)
(*              AgentManager.initialize / shutdown                          *)
(*   SpecForm   AddDomainForm, DomainList and the domains collection        *)
(*   SpecDash   AgentDashboard adding discovered competitors to monitoring  *)
(*   SpecPatch  the research route's PATCH handler, next to running jobs,   *)
(*              a running task and the message loop                         *)
(*   SpecStatus the agents' status while execute calls run and the agents   *)
(*              are started and stopped                                     *)
(*   SpecRate   the crawling agent's per-domain rate limit                  *)
(*   SpecLimits the research agent's hourly request limits                  *)
(*   SpecCache  the research agent's cache of research results              *)
(***************************************************************************)
EXTENDS Integers, Sequences, FiniteSets, TLC

(***************************************************************************)
(* Bounds of the model.                                                    *)
(***************************************************************************)
MaxJobs == 2
MaxExec == 2
MaxKeywords == 2
MaxFocus == 1
MaxDomains == 7
StackLimit == 5
MaxMessages == 2
MaxLoops == 2

(***************************************************************************)
(* Values shared by the parts.                                             *)
(***************************************************************************)
None == "none"

VARIABLES
  jobs,       \* the jobs collection: a sequence of documents, $id = index
  statusLog,  \* history: per job, the statuses written to the collection, in order
  jobFate,    \* history: per job, how its API call and its client flow ended
  flow,       \* per dashboard component, the position of its start* handler
  uiJobs      \* per dashboard component, the job statuses held in React state

VARIABLES
  agents,     \* AgentOrchestrator.agents: the ids the Map holds an agent for
  execLog,    \* history: the agents whose execute was invoked, in order
  lastCall    \* history: the last executeTask call and how it ended

VARIABLES
  initialized, \* AgentManager.initialized
  apiKeys,     \* the agents' apiKeys: which keys the environment configured
  agentStatus, \* per agent, config.status
  exec         \* the execute call in progress or just returned

VARIABLES
  batch,       \* the batchCrawl call: its position, loop index and results so far
  inFlight,    \* the domains (by index) whose performCrawl has not settled
  now,         \* ms since the batchCrawl call began
  starts       \* history: the batches started, in order

VARIABLES
  stack,       \* the handleMessage calls of one delivery that have not returned, outermost first
  chainEnd,    \* how the last delivery ended
  lastSent     \* history: the last 'task' message an agent sent, and who handled it

VARIABLES
  messageQueue, \* AgentOrchestrator.messageQueue
  isProcessing, \* AgentOrchestrator.isProcessing
  loops,        \* the startMessageProcessing calls that have not ended
  mgr,          \* per caller, where its initialize / shutdown / startAll call stands
  queueLog      \* history: messages added, taken, handed to an agent, and loops lost

VARIABLES
  domainDocs,   \* the domains collection: a sequence of documents, $id = index
  form,         \* AddDomainForm: its error state and the last submission
  pageDomains,  \* the dashboard page's domains state, as DomainList gets it
  lastToggle,   \* history: the last DomainList.toggleDomainStatus call
  dashDomains,  \* AgentDashboard's domains state
  addingDomain, \* AgentDashboard's addingDomain state
  addLog        \* the addCompetitorToMonitoring calls, in order, and where each stands

VARIABLES
  patch         \* the PATCH request to the research route, and its response

VARIABLES
  tasks   \* per agent, the execute calls begun and not returned; history: a call begun while stopped

VARIABLES
  rateLimits,  \* CrawlingAgent.rateLimits: per key, lastRequest and requestCount
  rateNow,     \* Date.now() for the crawling agent, in ms
  crawl,       \* the performCrawl call in progress
  burst        \* history: the requests sent to the host since the window's first one

VARIABLES
  svcLimits,  \* ResearchAgent.rateLimits: per service, requests and resetTime
  svcNow,     \* Date.now() for the research agent's limits, in ms
  svcCall,    \* the searchWithTavily call in progress: queries left to send
  issued,     \* history: per service, the requests issued since the window was reset
  watched     \* the service whose requests this behaviour follows

VARIABLES
  researchCache,  \* ResearchAgent.researchCache: per key, the result object, its timestamp; history: as stored
  cacheNow,       \* Date.now() for the research cache, in ms
  lastAnswer      \* history: the last research request and its answer

jobVars == <<jobs, statusLog, jobFate, flow, uiJobs>>

orchVars == <<agents, execLog, lastCall>>

execVars == <<initialized, apiKeys, agentStatus, exec>>

crawlVars == <<batch, inFlight, now, starts>>

msgVars == <<stack, chainEnd, lastSent>>

queueVars == <<messageQueue, isProcessing, loops, mgr, queueLog>>

domainVars == <<domainDocs, form, pageDomains, lastToggle, dashDomains, addingDomain, addLog>>

statusVars == <<tasks>>

rateVars == <<rateLimits, rateNow, crawl, burst>>

limitVars == <<svcLimits, svcNow, svcCall, issued, watched>>

cacheVars == <<researchCache, cacheNow, lastAnswer>>

\* The variables of the parts that follow the PATCH handler in this module.
laterVars == <<statusVars, rateVars, limitVars, cacheVars>>

vars == <<jobs, statusLog, jobFate, flow, uiJobs, agents, execLog, lastCall,
          initialized, apiKeys, agentStatus, exec, batch, inFlight, now, starts,
          stack, chainEnd, lastSent, messageQueue, isProcessing, loops, mgr, queueLog,
          domainDocs, form, pageDomains, lastToggle, dashDomains, addingDomain, addLog,
          patch,
          tasks,
          rateLimits, rateNow, crawl, burst,
          svcLimits, svcNow, svcCall, issued, watched,
          researchCache, cacheNow, lastAnswer>>

\* A step of one part leaves the variables of the other parts alone.
OnlyJobs == UNCHANGED <<orchVars, execVars, crawlVars, msgVars, queueVars, domainVars, patch, statusVars, rateVars, limitVars, cacheVars>>

OnlyOrch == UNCHANGED <<jobVars, execVars, crawlVars, msgVars, queueVars, domainVars, patch, statusVars, rateVars, limitVars, cacheVars>>

OnlyExec == UNCHANGED <<jobVars, orchVars, crawlVars, msgVars, queueVars, domainVars, patch, statusVars, rateVars, limitVars, cacheVars>>

OnlyCrawl == UNCHANGED <<jobVars, orchVars, execVars, msgVars, queueVars, domainVars, patch, statusVars, rateVars, limitVars, cacheVars>>

OnlyMsg == UNCHANGED <<jobVars, orchVars, execVars, crawlVars, queueVars, domainVars, patch, statusVars, rateVars, limitVars, cacheVars>>

\* The message loop and the manager move the queue, the registry, the
\* agents' status and AgentManager.initialized.
OnlyQueue ==
  UNCHANGED <<jobVars, crawlVars, msgVars, execLog, lastCall, apiKeys, exec, domainVars, patch, statusVars, rateVars, limitVars, cacheVars>>

OnlyDomains ==
  UNCHANGED <<jobVars, orchVars, execVars, crawlVars, msgVars, queueVars, patch, statusVars, rateVars, limitVars, cacheVars>>

(***************************************************************************)
(* DatabaseService (the jobs collection).                                  *)
(***************************************************************************)
JobStatuses == {"pending", "running", "completed", "failed"}

\* createJob: the document stored for a new job. status defaults to
\* 'pending', progress to 0; error and completedAt are not set.
CreateJobDoc(type, status) ==
  [type |-> type,
   status |-> IF status = None THEN "pending" ELSE status,
   progress |-> 0,
   error |-> None,
   completedAt |-> FALSE]

\* updateJob: the document after updateDocument merged the given fields.
\* `updates` holds only the fields that are sent: a field whose value is
\* undefined is dropped by the JSON encoding of the request. completedAt is
\* stamped when the update sets status 'completed'.
UpdateJobDoc(doc, updates) ==
  LET merged == [f \in DOMAIN doc |->
                   IF f \in DOMAIN updates THEN updates[f] ELSE doc[f]]
  IN IF "status" \in DOMAIN updates /\ updates["status"] = "completed"
     THEN [merged EXCEPT !["completedAt"] = TRUE]
     ELSE merged

(***************************************************************************)
(* The API routes POST /api/agents/{discovery,crawl,research}.             *)
(***************************************************************************)
\* What an agent's execute returned to the route.
AgentOk   == [success |-> TRUE,  error |-> None]
AgentFail == [success |-> FALSE, error |-> "agent error"]
AgentResults == {AgentOk, AgentFail}

RouteErrorMessage(kind) ==
  CASE kind = "discovery" -> "Failed to discover competitors"
    [] kind = "crawl"     -> "Failed to crawl domains"
    [] kind = "research"  -> "Failed to execute research task"

\* The JSON body a route's POST answers with. `threw` is whether anything
\* inside the handler's try block threw (initialize, executeTask for an
\* agent that is not registered, the memory service); `result` is what
\* executeTask returned otherwise. The body's success field is "true" or
\* absent: no route writes success:false.
RoutePOST(kind, threw, result) ==
  IF threw
  THEN [success |-> "absent", error |-> RouteErrorMessage(kind), code |-> 500]
  ELSE [success |-> "true", error |-> None, code |-> 200]

\* JavaScript truthiness of the body's success field.
Truthy(v) == v = "true"

(***************************************************************************)
(* The dashboard components: AgentDashboard (startDiscovery, startCrawling)*)
(* and the research panel (startResearch).                                 *)
(***************************************************************************)
Components == {"dashboard", "research"}

KindsOf(c) == IF c = "dashboard" THEN {"discovery", "crawl"} ELSE {"research"}

DefaultError(kind) ==
  CASE kind = "discovery" -> "Discovery failed"
    [] kind = "crawl"     -> "Crawling failed"
    [] kind = "research"  -> "Research failed"

\* FinalUpdate with the test on data.success inverted.
FinalUpdate_Inverted(kind, data) ==
  IF ~Truthy(data.success)
  THEN [status |-> "completed", progress |-> 100]
  ELSE [status |-> "failed",
        error |-> IF data.error = None THEN DefaultError(kind) ELSE data.error,
        progress |-> 100]

\* The fields of the handler's last updateJob, from the response body.
FinalUpdate(kind, data) ==
  IF Truthy(data.success)
  THEN [status |-> "completed", progress |-> 100]
  ELSE [status |-> "failed",
        error |-> IF data.error = None THEN DefaultError(kind) ELSE data.error,
        progress |-> 100]

IdleFlow == [pc |-> "idle", kind |-> None, job |-> 0, data |-> None]

NoFate == [api |-> None, agent |-> None, ended |-> None]

\* The jobs a component lists: the research panel keeps research jobs only.
Listed(c, docs) ==
  [id \in 1..MaxJobs |->
     IF id <= Len(docs) /\ (c = "dashboard" \/ docs[id].type = "research")
     THEN docs[id].status ELSE None]

InitJobs ==
  /\ jobs = <<>>
  /\ statusLog = [id \in 1..MaxJobs |-> <<>>]
  /\ jobFate = [id \in 1..MaxJobs |-> NoFate]
  /\ flow = [c \in Components |-> IdleFlow]
  /\ uiJobs = [c \in Components |-> [id \in 1..MaxJobs |-> None]]

\* The id a handler's createJob call gets: always a fresh document.
NewJobId == Len(jobs) + 1

\* StartJob that retries: when a failed job exists, the handler may take it
\* up again (back to 'pending') instead of creating a document.
StartJob_Retry(c) ==
  /\ OnlyJobs
  /\ flow[c].pc = "idle"
  /\ \/ \E id \in 1..Len(jobs) :
          /\ jobs[id].status = "failed"
          /\ jobs' = [jobs EXCEPT ![id].status = "pending"]
          /\ statusLog' = [statusLog EXCEPT ![id] = Append(@, "pending")]
          /\ flow' = [flow EXCEPT ![c] =
                       [pc |-> "created", kind |-> jobs[id].type, job |-> id, data |-> None]]
          /\ UNCHANGED <<jobFate, uiJobs>>
     \/ /\ Len(jobs) < MaxJobs
        /\ \E kind \in KindsOf(c) :
             LET id == Len(jobs) + 1
                 doc == CreateJobDoc(kind, "pending")
             IN /\ jobs' = Append(jobs, doc)
                /\ statusLog' = [statusLog EXCEPT ![id] = <<doc.status>>]
                /\ flow' = [flow EXCEPT ![c] =
                             [pc |-> "created", kind |-> kind, job |-> id, data |-> None]]
                /\ uiJobs' = [uiJobs EXCEPT ![c][id] = doc.status]
                /\ UNCHANGED jobFate

\* start*: the guard (input given, not loading), setLoading(true) and
\* createJob. When createJob throws, the catch block logs and the finally
\* block clears loading: no job exists.
StartJob(c) ==
  /\ OnlyJobs
  /\ flow[c].pc = "idle"
  /\ Len(jobs) < MaxJobs
  /\ \E kind \in KindsOf(c), dbThrows \in BOOLEAN :
       IF dbThrows
       THEN UNCHANGED jobVars
       ELSE LET id == NewJobId
                doc == CreateJobDoc(kind, "pending")
            IN /\ jobs' = Append(jobs, doc)
               /\ statusLog' = [statusLog EXCEPT ![id] = <<doc.status>>]
               /\ flow' = [flow EXCEPT ![c] =
                            [pc |-> "created", kind |-> kind, job |-> id, data |-> None]]
               /\ uiJobs' = [uiJobs EXCEPT ![c][id] = doc.status]
               /\ UNCHANGED jobFate

\* updateJob(newJob.$id, {status:'running', progress:10}). A throw leaves
\* the job as created and ends the handler.
SetRunning(c) ==
  /\ OnlyJobs
  /\ flow[c].pc = "created"
  /\ \E dbThrows \in BOOLEAN :
       LET id == flow[c].job IN
       IF dbThrows
       THEN /\ flow' = [flow EXCEPT ![c] = IdleFlow]
            /\ jobFate' = [jobFate EXCEPT ![id].ended = "db_threw"]
            /\ UNCHANGED <<jobs, statusLog, uiJobs>>
       ELSE LET doc == UpdateJobDoc(jobs[id], [status |-> "running", progress |-> 10])
            IN /\ jobs' = [jobs EXCEPT ![id] = doc]
               /\ statusLog' = [statusLog EXCEPT ![id] = Append(@, doc.status)]
               /\ flow' = [flow EXCEPT ![c].pc = "running"]
               /\ uiJobs' = [uiJobs EXCEPT ![c][id] = doc.status]
               /\ UNCHANGED jobFate

\* fetch(route) and response.json(). Either of them may throw (the request
\* fails, the body is not JSON): the catch block only logs, the finally
\* block clears loading, and the job is not touched again.
ApiCall(c) ==
  /\ OnlyJobs
  /\ flow[c].pc = "running"
  /\ LET id == flow[c].job IN
     \/ /\ flow' = [flow EXCEPT ![c] = IdleFlow]
        /\ jobFate' = [jobFate EXCEPT ![id].api = "threw", ![id].ended = "api_threw"]
        /\ UNCHANGED <<jobs, statusLog, uiJobs>>
     \/ \E threw \in BOOLEAN, result \in AgentResults :
          LET data == RoutePOST(flow[c].kind, threw, result) IN
          /\ flow' = [flow EXCEPT ![c].pc = "responded", ![c].data = data]
          /\ jobFate' = [jobFate EXCEPT
                          ![id].api = IF Truthy(data.success) THEN "success" ELSE "failure",
                          ![id].agent = IF threw THEN "not_run"
                                        ELSE IF result.success THEN "ok" ELSE "failed"]
          /\ UNCHANGED <<jobs, statusLog, uiJobs>>

\* The handler's last updateJob, then finally: setLoading(false).
Finalize(c) ==
  /\ OnlyJobs
  /\ flow[c].pc = "responded"
  /\ \E dbThrows \in BOOLEAN :
       LET id == flow[c].job IN
       IF dbThrows
       THEN /\ flow' = [flow EXCEPT ![c] = IdleFlow]
            /\ jobFate' = [jobFate EXCEPT ![id].ended = "db_threw"]
            /\ UNCHANGED <<jobs, statusLog, uiJobs>>
       ELSE LET doc == UpdateJobDoc(jobs[id], FinalUpdate(flow[c].kind, flow[c].data))
            IN /\ jobs' = [jobs EXCEPT ![id] = doc]
               /\ statusLog' = [statusLog EXCEPT ![id] = Append(@, doc.status)]
               /\ flow' = [flow EXCEPT ![c] = IdleFlow]
               /\ jobFate' = [jobFate EXCEPT ![id].ended = "finalized"]
               /\ uiJobs' = [uiJobs EXCEPT ![c][id] = doc.status]

\* The page that runs a handler goes away between two awaits (the tab is
\* closed or reloaded): the handler never resumes and the component's state
\* is lost. A reloaded component starts idle with an empty list.
Crash(c) ==
  /\ OnlyJobs
  /\ flow[c].pc # "idle"
  /\ flow' = [flow EXCEPT ![c] = IdleFlow]
  /\ jobFate' = [jobFate EXCEPT ![flow[c].job].ended = "crashed"]
  /\ uiJobs' = [uiJobs EXCEPT ![c] = [id \in 1..MaxJobs |-> None]]
  /\ UNCHANGED <<jobs, statusLog>>

\* The mount effect: load the user's jobs into the component's state.
LoadData(c) ==
  /\ OnlyJobs
  /\ uiJobs' = [uiJobs EXCEPT ![c] = Listed(c, jobs)]
  /\ UNCHANGED <<jobs, statusLog, jobFate, flow>>

\* PollStatus that reaps: a polled job found 'running' with no handler
\* working on it is written back as 'failed'.
PollStatus_Reaper(c) ==
  /\ OnlyJobs
  /\ \E id \in 1..Len(jobs) :
       /\ uiJobs[c][id] = "running"
       /\ jobs[id].status = "running"
       /\ \A d \in Components : flow[d].job # id
       /\ jobs' = [jobs EXCEPT ![id].status = "failed"]
       /\ statusLog' = [statusLog EXCEPT ![id] = Append(@, "failed")]
  /\ uiJobs' = [uiJobs EXCEPT ![c] = Listed(c, jobs)]
  /\ UNCHANGED <<jobFate, flow>>

\* pollStatus / pollResearchJobs: when the component's list holds a running
\* job, reload the list from the database. Nothing is written.
PollStatus(c) ==
  /\ OnlyJobs
  /\ \E id \in 1..MaxJobs : uiJobs[c][id] = "running"
  /\ uiJobs' = [uiJobs EXCEPT ![c] = Listed(c, jobs)]
  /\ UNCHANGED <<jobs, statusLog, jobFate, flow>>

NextJobs ==
  \E c \in Components :
    \/ StartJob(c)
    \/ SetRunning(c)
    \/ ApiCall(c)
    \/ Finalize(c)
    \/ Crash(c)
    \/ LoadData(c)
    \/ PollStatus(c)

(***************************************************************************)
(* AgentOrchestrator: the registry and executeTask.                        *)
(***************************************************************************)
\* The agents the repository defines, by config.id.
AgentIds == {"discovery_agent", "crawling_agent", "research_agent"}

\* Ids that code addresses (executeTask, sendMessage): the three agents and
\* 'analysis_agent', for which no class exists.
TargetIds == AgentIds \cup {"analysis_agent"}

NoCall == [agentId |-> None, registry |-> {}, threw |-> FALSE, error |-> None,
           invoked |-> {}]

InitOrch ==
  /\ agents = {}
  /\ execLog = <<>>
  /\ lastCall = NoCall

\* registerAgent: agents.set(agent.getStatus().id, agent).
RegisterAgent(id) ==
  /\ OnlyOrch
  /\ agents' = agents \cup {id}
  /\ UNCHANGED <<execLog, lastCall>>

\* unregisterAgent: agents.delete(agentId).
UnregisterAgent(id) ==
  /\ OnlyOrch
  /\ agents' = agents \ {id}
  /\ UNCHANGED <<execLog, lastCall>>

\* executeTask that falls back to some registered agent when the id is
\* not found.
ExecuteTaskOutcome_Fallback(registry, agentId) ==
  IF agentId \notin registry /\ registry = {}
  THEN [threw |-> TRUE, error |-> "Agent " \o agentId \o " not found", invoked |-> {}]
  ELSE [threw |-> FALSE, error |-> None,
        invoked |-> IF agentId \in registry THEN {agentId}
                    ELSE {CHOOSE a \in registry : TRUE}]

\* executeTask(agentId, task): agents.get(agentId); throw when there is
\* none, else the agent's execute is invoked and its result returned.
ExecuteTaskOutcome(registry, agentId) ==
  IF agentId \notin registry
  THEN [threw |-> TRUE, error |-> "Agent " \o agentId \o " not found", invoked |-> {}]
  ELSE [threw |-> FALSE, error |-> None, invoked |-> {agentId}]

ExecuteTask(agentId) ==
  /\ OnlyOrch
  /\ Len(execLog) < MaxExec
  /\ LET out == ExecuteTaskOutcome(agents, agentId) IN
     /\ lastCall' = [agentId |-> agentId, registry |-> agents, threw |-> out.threw,
                     error |-> out.error, invoked |-> out.invoked]
     /\ execLog' = IF out.invoked = {} THEN execLog
                   ELSE Append(execLog, CHOOSE a \in out.invoked : TRUE)
  /\ UNCHANGED agents

NextOrch ==
  \/ \E id \in AgentIds : RegisterAgent(id)
  \/ \E id \in TargetIds : UnregisterAgent(id)
  \/ \E id \in TargetIds : ExecuteTask(id)

(***************************************************************************)
(* The agents: execute and the external calls of a task.                   *)
(***************************************************************************)
Min(a, b) == IF a < b THEN a ELSE b

\* Array.prototype.slice(0, n).
Take(s, n) == SubSeq(s, 1, Min(n, Len(s)))

\* DiscoveryAgent.searchWithBasicFallback: the industryCompetitors table, in
\* the order Object.entries walks it.
industryCompetitors ==
  << [industry |-> "crm",
      domains |-> <<"salesforce.com", "hubspot.com", "pipedrive.com", "zoho.com", "freshworks.com">>],
     [industry |-> "ecommerce",
      domains |-> <<"shopify.com", "woocommerce.com", "magento.com", "bigcommerce.com", "squarespace.com">>],
     [industry |-> "saas",
      domains |-> <<"atlassian.com", "slack.com", "notion.so", "airtable.com", "monday.com">>],
     [industry |-> "marketing",
      domains |-> <<"mailchimp.com", "constantcontact.com", "sendinblue.com", "convertkit.com", "aweber.com">>],
     [industry |-> "analytics",
      domains |-> <<"google.com", "adobe.com", "mixpanel.com", "amplitude.com", "hotjar.com">>],
     [industry |-> "project management",
      domains |-> <<"asana.com", "trello.com", "monday.com", "clickup.com", "basecamp.com">>],
     [industry |-> "communication",
      domains |-> <<"slack.com", "microsoft.com", "zoom.us", "discord.com", "telegram.org">>],
     [industry |-> "design",
      domains |-> <<"figma.com", "canva.com", "adobe.com", "sketch.com", "invisionapp.com">>],
     [industry |-> "development",
      domains |-> <<"github.com", "gitlab.com", "bitbucket.org", "vercel.com", "netlify.com">>],
     [industry |-> "ai",
      domains |-> <<"openai.com", "anthropic.com", "cohere.ai", "huggingface.co", "replicate.com">>] >>

\* The general tech companies pushed when no industry matched.
generalDomains ==
  <<"microsoft.com", "google.com", "amazon.com", "apple.com", "meta.com",
    "salesforce.com", "adobe.com", "oracle.com", "ibm.com", "servicenow.com">>

\* Every domain the built-in lists hold.
BuiltInDomains ==
  UNION { {industryCompetitors[i].domains[j] : j \in 1..Len(industryCompetitors[i].domains)} :
          i \in 1..Len(industryCompetitors) }
  \cup {generalDomains[j] : j \in 1..Len(generalDomains)}

\* A search query, by the industry names its lower-cased text includes.
Queries == { {}, {"crm"}, {"ai"}, {"crm", "saas"} }

\* The loop over Object.entries(industryCompetitors): the domains of every
\* industry the query includes, in table order.
RECURSIVE MatchedDomains(_, _)
MatchedDomains(query, i) ==
  IF i > Len(industryCompetitors) THEN <<>>
  ELSE (IF industryCompetitors[i].industry \in query
        THEN industryCompetitors[i].domains ELSE <<>>)
       \o MatchedDomains(query, i + 1)

\* searchWithBasicFallback(query): at most 8 result urls, never an exception.
SearchWithBasicFallback(query) ==
  LET matched == MatchedDomains(query, 1) IN
  Take(IF Len(matched) = 0 THEN generalDomains ELSE matched, 8)

\* What https://api.tavily.com/search may answer to one query: 200 with
\* results, 200 without, 200 with a body that is not JSON, a 500, or no
\* answer at all (fetch rejects).
SearchKinds == {"ok", "badjson", "http500", "reject"}

SearchResponses ==
  { [kind |-> "ok", results |-> <<"acme.io", "salesforce.com">>],
    [kind |-> "ok", results |-> <<>>] }
  \cup { [kind |-> k, results |-> <<>>] : k \in SearchKinds \ {"ok"} }

\* DiscoveryAgent.searchWithTavily(query): [] without a key (no request is
\* made); else one fetch, whose results are returned when the response is
\* ok and parses, and [] on a non-ok status or on any exception.
SearchWithTavily(key, resp) ==
  IF ~key THEN [value |-> <<>>, threw |-> FALSE, fetches |-> 0]
  ELSE [value |-> IF resp.kind = "ok" THEN resp.results ELSE <<>>,
        threw |-> FALSE, fetches |-> 1]

NoSearch ==
  [made |-> FALSE, key |-> FALSE, tavily |-> [value |-> <<>>, threw |-> FALSE, fetches |-> 0],
   results |-> <<>>, threw |-> FALSE, status |-> None]

\* performSearch without the fallback branches.
PerformSearch_TavilyOnly(key, resp, query) ==
  LET t == SearchWithTavily(key, resp) IN
  [made |-> TRUE, key |-> key, tavily |-> t, results |-> t.value, threw |-> t.threw,
   status |-> IF key THEN resp.kind ELSE None]

\* DiscoveryAgent.performSearch(query): the Tavily results when there are
\* some, else (none, or an exception) the built-in fallback.
PerformSearch(key, resp, query) ==
  LET t == SearchWithTavily(key, resp) IN
  [made |-> TRUE, key |-> key, tavily |-> t,
   results |-> IF ~t.threw /\ Len(t.value) > 0 THEN t.value
               ELSE SearchWithBasicFallback(query),
   threw |-> FALSE,
   status |-> IF key THEN resp.kind ELSE None]

\* What https://api.tavily.com/extract may answer for one url.
ExtractResponses == {"content", "failed_results", "no_content", "http500", "reject"}

\* What the crawled site itself may answer: a page, an empty body, a 500,
\* or nothing (fetch rejects).
PageResponses == {"page", "blank", "http500", "reject"}

\* CrawlingAgent.crawlWithTavily(url): results[0], or an exception.
CrawlWithTavily(resp) ==
  CASE resp = "content" -> [threw |-> FALSE, value |-> "content", error |-> None]
    [] resp = "http500" ->
         [threw |-> TRUE, value |-> "", error |-> "Tavily API error: 500 Internal Server Error"]
    [] resp = "failed_results" ->
         [threw |-> TRUE, value |-> "", error |-> "Tavily extraction failed: error"]
    [] resp = "no_content" ->
         [threw |-> TRUE, value |-> "", error |-> "No content extracted from Tavily"]
    [] OTHER -> [threw |-> TRUE, value |-> "", error |-> "fetch failed"]

\* CrawlingAgent.basicCrawl(url): the body text, or an exception.
BasicCrawl(resp) ==
  CASE resp = "page" -> [threw |-> FALSE, value |-> "<html>", error |-> None]
    [] resp = "blank" -> [threw |-> FALSE, value |-> "", error |-> None]
    [] resp = "http500" ->
         [threw |-> TRUE, value |-> "", error |-> "HTTP 500: Internal Server Error"]
    [] OTHER -> [threw |-> TRUE, value |-> "", error |-> "fetch failed"]

NoCrawl ==
  [made |-> FALSE, success |-> FALSE, error |-> None, tavilyFetches |-> 0, pageFetches |-> 0,
   tavily |-> None, page |-> None]

\* performCrawl that gives up when the Tavily extract fails.
PerformCrawl_NoFallback(key, tavResp, pageResp) ==
  LET tav == CrawlWithTavily(tavResp) IN
  IF key /\ ~tav.threw
  THEN [made |-> TRUE, success |-> TRUE, error |-> None, tavilyFetches |-> 1,
        pageFetches |-> 0, tavily |-> tavResp, page |-> None]
  ELSE [made |-> TRUE, success |-> FALSE,
        error |-> IF key THEN tav.error ELSE "All crawling methods failed",
        tavilyFetches |-> IF key THEN 1 ELSE 0, pageFetches |-> 0,
        tavily |-> IF key THEN tavResp ELSE None, page |-> None]

\* CrawlingAgent.performCrawl(domain, task): the Tavily extract when a key is
\* configured, then on its failure (or without a key) a direct fetch of the
\* page; a failure result, never an exception, when neither gave content.
PerformCrawl(key, tavResp, pageResp) ==
  LET tav == CrawlWithTavily(tavResp)
      basic == BasicCrawl(pageResp)
      lastError == IF basic.threw THEN basic.error
                   ELSE IF key THEN tav.error ELSE None
  IN
  IF key /\ ~tav.threw
  THEN [made |-> TRUE, success |-> TRUE, error |-> None, tavilyFetches |-> 1,
        pageFetches |-> 0, tavily |-> tavResp, page |-> None]
  ELSE [made |-> TRUE,
        success |-> ~basic.threw /\ basic.value # "",
        error |-> IF ~basic.threw /\ basic.value # "" THEN None
                  ELSE IF lastError # None THEN lastError
                  ELSE "All crawling methods failed",
        tavilyFetches |-> IF key THEN 1 ELSE 0, pageFetches |-> 1,
        tavily |-> IF key THEN tavResp ELSE None, page |-> pageResp]

\* The task types each agent's execute switches on.
KnownTypes(agent) ==
  CASE agent = "discovery_agent" -> {"discover_competitors", "analyze_industry", "find_sources"}
    [] agent = "crawling_agent" ->
         {"crawl_domain", "batch_crawl", "monitor_changes", "new_competitors"}
    [] OTHER ->
         {"deep_research", "competitive_analysis", "market_intelligence", "trend_analysis",
          "source_verification", "contextual_research"}

\* A call without a task object (a message whose payload is undefined).
NoTask == "(undefined)"

\* The task types handed to execute by routes and by messages, for whichever
\* agent: 'analyze_content' is what crawlSingleDomain sends.
TaskTypes ==
  UNION {KnownTypes(a) : a \in AgentIds} \cup {"analyze_content", NoTask}

\* The fields of a task the handlers branch on.
TaskInputs ==
  [industry : BOOLEAN, keywords : 0..MaxKeywords, domains : 0..1, focusAreas : 0..MaxFocus]

\* A thrown value: an Error with its message, or something else.
Thrown(msg) == [isError |-> TRUE, message |-> msg]

NonError == [isError |-> FALSE, message |-> None]

\* How the body of execute's try block ends: it returns a result, it throws,
\* or it is waiting on a handler's promise (next names the handler's step).
Returned(success, error) ==
  [kind |-> "return", success |-> success, error |-> error, thrown |-> NonError, next |-> None]

Threw(thrown) ==
  [kind |-> "throw", success |-> FALSE, error |-> None, thrown |-> thrown, next |-> None]

Await(next) ==
  [kind |-> "await", success |-> FALSE, error |-> None, thrown |-> NonError, next |-> next]

\* The default branch of each switch.
UnknownTypeMessage(agent, type) ==
  CASE agent = "discovery_agent" -> "Unknown task type: " \o type
    [] agent = "crawling_agent" -> "Unknown crawling task type: " \o type
    [] OTHER -> "Unknown research task type: " \o type

\* The catch block's message for a thrown value that is not an Error.
DefaultCatchMessage(agent) ==
  CASE agent = "discovery_agent" -> "Unknown error occurred"
    [] agent = "crawling_agent" -> "Unknown crawling error occurred"
    [] OTHER -> "Unknown research error occurred"

\* ResearchAgent.validateApiKeys.
ValidateApiKeys(keys) == keys.tavily \/ keys.perplexity \/ keys.serper

\* DiscoveryAgent.generateSearchQueries: how many queries a task yields (no
\* existingCompetitors, no region).
DiscoveryQueryLimit == 8

NumDiscoveryQueries(input) ==
  Min(DiscoveryQueryLimit,
      (IF input.industry THEN 6 ELSE 0)
      + 4 * Min(input.keywords, 3)
      + (IF input.keywords > 1 THEN 3 ELSE 0))

\* ResearchAgent.generateSearchQueries: the base query, one per focus area,
\* one for the industry; at most 5.
ResearchQueryLimit == 5

NumResearchQueries(input) ==
  Min(ResearchQueryLimit, 1 + input.focusAreas + (IF input.industry THEN 1 ELSE 0))

\* The try block of execute up to its first await: the switch on task.type
\* and the checks a handler makes before it calls out.
Dispatch(agent, keys, type, input) ==
  IF agent = "research_agent" /\ ~ValidateApiKeys(keys)
  THEN Returned(FALSE, "No research API keys configured. Please set TAVILY_API_KEY, PERPLEXITY_API_KEY, or SERPER_API_KEY in your environment variables.")
  ELSE IF type = NoTask
  THEN Threw(Thrown("Cannot read properties of undefined (reading 'type')"))
  ELSE IF type \notin KnownTypes(agent)
  THEN Threw(Thrown(UnknownTypeMessage(agent, type)))
  ELSE IF type = "discover_competitors"
  THEN (IF ~input.industry /\ input.keywords = 0
        THEN Returned(FALSE, "Industry or keywords required for competitor discovery")
        ELSE Await("search"))
  ELSE IF type = "crawl_domain"
  THEN (IF input.domains = 0
        THEN Returned(FALSE, "No domain specified for crawling")
        ELSE Await("crawl"))
  ELSE IF type = "deep_research"
  THEN Await("research")
  ELSE Await("handler")

\* execute whose catch block logs and rethrows.
Settle_Rethrow(agent, out) ==
  IF out.kind = "return"
  THEN [settled |-> "fulfilled", success |-> out.success, error |-> out.error]
  ELSE [settled |-> "rejected", success |-> FALSE, error |-> None]

\* execute's try / catch / finally around a handler: the handler's result,
\* or for a thrown value a failure carrying its message.
Settle(agent, out) ==
  IF out.kind = "return"
  THEN [settled |-> "fulfilled", success |-> out.success, error |-> out.error]
  ELSE [settled |-> "fulfilled", success |-> FALSE,
        error |-> IF out.thrown.isError THEN out.thrown.message
                  ELSE DefaultCatchMessage(agent)]

Max(a, b) == IF a > b THEN a ELSE b

AgentStatuses == {"idle", "working", "error", "disabled"}

NoResult == [settled |-> None, success |-> FALSE, error |-> None]

\* No execute call yet.
IdleExec ==
  [pc |-> "idle", agent |-> None, type |-> None, left |-> 0, got |-> FALSE,
   saw500 |-> FALSE, attempts |-> 0, raised |-> FALSE,
   search |-> NoSearch, crawl |-> NoCrawl, result |-> NoResult, nested |-> NoResult]

\* Any task input: what a nested call's payload holds does not matter to
\* the branches it takes.
AnyInput == [industry |-> FALSE, keywords |-> 0, domains |-> 0, focusAreas |-> 0]

InitExec ==
  /\ initialized = FALSE
  /\ apiKeys = [tavily |-> FALSE, perplexity |-> FALSE, serper |-> FALSE]
  /\ agentStatus = [a \in AgentIds |-> "idle"]
  /\ exec = IdleExec

\* AgentManager.initialize: the agents are constructed (each reads its keys
\* from process.env), registered and started.
Initialize(env) ==
  /\ OnlyExec
  /\ ~initialized
  /\ initialized' = TRUE
  /\ apiKeys' = env
  /\ agentStatus' = [a \in AgentIds |-> "idle"]
  /\ UNCHANGED exec

\* The call ends: the result execute resolves with, after the finally block.
Finish(fields, out) ==
  /\ exec' = [fields EXCEPT !.pc = "returned", !.left = 0,
                            !.raised = (out.kind = "throw"),
                            !.result = Settle(fields.agent, out)]
  /\ agentStatus' = [agentStatus EXCEPT ![fields.agent] = "idle"]

\* sendMessage(to, 'task', payload) from inside a handler: BaseAgent.sendMessage
\* hands the message to the sender's own handleMessage, which runs execute
\* on the payload and sends the result the same way.
NestedExecute(agent, type) == Settle(agent, Dispatch(agent, apiKeys, type, AnyInput))

\* execute(task), up to its first await or, when there is none, to its end.
ExecBegin(agent, type, input) ==
  /\ OnlyExec
  /\ initialized
  /\ exec.pc \in {"idle", "returned"}
  /\ LET out == Dispatch(agent, apiKeys, type, input)
         fields == [IdleExec EXCEPT !.agent = agent, !.type = type]
     IN IF out.kind = "await"
        THEN /\ exec' = [fields EXCEPT
                           !.pc = out.next,
                           !.left = CASE out.next = "search" -> NumDiscoveryQueries(input)
                                      [] out.next = "research" -> NumResearchQueries(input)
                                      [] OTHER -> 0]
             /\ agentStatus' = [agentStatus EXCEPT ![agent] = "working"]
        ELSE Finish(fields, out)
  /\ UNCHANGED <<initialized, apiKeys>>

\* discoverCompetitors: one turn of the loop over the search queries.
SearchStep(resp, query) ==
  /\ OnlyExec
  /\ exec.pc = "search"
  /\ exec.left > 0
  /\ LET r == PerformSearch(apiKeys.tavily, resp, query) IN
     exec' = [exec EXCEPT !.search = r,
                          !.left = @ - 1,
                          !.saw500 = @ \/ r.status = "http500",
                          !.attempts = Max(@, r.tavily.fetches),
                          !.pc = IF exec.left = 1 THEN "notify" ELSE "search"]
  /\ UNCHANGED <<initialized, apiKeys, agentStatus>>

\* discoverCompetitors after the loop: notifyCrawlingAgent, then success.
DiscoveryReturn ==
  /\ OnlyExec
  /\ exec.pc = "notify"
  /\ Finish([exec EXCEPT !.nested = NestedExecute(exec.agent, "new_competitors")],
            Returned(TRUE, None))
  /\ UNCHANGED <<initialized, apiKeys>>

\* crawlSingleDomain: performCrawl on domains[0], the message to
\* 'analysis_agent' when it succeeded, and the result.
CrawlStep(tavResp, pageResp) ==
  /\ OnlyExec
  /\ exec.pc = "crawl"
  /\ LET c == PerformCrawl(apiKeys.tavily, tavResp, pageResp) IN
     Finish([exec EXCEPT !.crawl = c,
                         !.saw500 = (c.tavily = "http500" \/ c.page = "http500"),
                         !.attempts = Max(c.tavilyFetches, c.pageFetches),
                         !.nested = IF c.success
                                    THEN NestedExecute(exec.agent, "analyze_content")
                                    ELSE NoResult],
            Returned(c.success, None))
  /\ UNCHANGED <<initialized, apiKeys>>

\* performDeepResearch up to Promise.allSettled: a fresh cache entry is
\* returned at once; else searchWithTavily runs its queries when it has a
\* key and quota left, and rejects before any request when not.
ResearchStart(cached, underLimit) ==
  /\ OnlyExec
  /\ exec.pc = "research"
  /\ IF cached
     THEN Finish(exec, Returned(TRUE, None))
     ELSE /\ exec' = IF apiKeys.tavily /\ underLimit
                     THEN [exec EXCEPT !.pc = "queries"]
                     ELSE [exec EXCEPT !.pc = "perplexity", !.left = 0]
          /\ UNCHANGED agentStatus
  /\ UNCHANGED <<initialized, apiKeys>>

\* ResearchAgent.searchWithTavily: one turn of the loop over the queries; a
\* non-ok response or a rejected fetch is caught and the loop goes on.
ResearchQueryStep(resp) ==
  /\ OnlyExec
  /\ exec.pc = "queries"
  /\ exec.left > 0
  /\ exec' = [exec EXCEPT !.left = @ - 1,
                          !.got = @ \/ (resp.kind = "ok" /\ Len(resp.results) > 0),
                          !.saw500 = @ \/ resp.kind = "http500",
                          !.attempts = Max(@, 1),
                          !.pc = IF exec.left = 1 THEN "perplexity" ELSE "queries"]
  /\ UNCHANGED <<initialized, apiKeys, agentStatus>>

\* analyzeWithPerplexity (one request when it has a key and quota left; null
\* on a non-ok response or a rejected fetch), the synthesis, the cache
\* entry, notifyOtherAgents and the result.
ResearchReturn(kind, underLimit, highValueUrls) ==
  /\ OnlyExec
  /\ exec.pc = "perplexity"
  /\ highValueUrls => exec.got
  /\ LET asked == apiKeys.perplexity /\ underLimit IN
     Finish([exec EXCEPT !.saw500 = @ \/ (asked /\ kind = "http500"),
                         !.attempts = Max(@, IF asked THEN 1 ELSE 0),
                         !.nested = IF highValueUrls
                                    THEN NestedExecute(exec.agent, "monitor_changes")
                                    ELSE NoResult],
            Returned(TRUE, None))
  /\ UNCHANGED <<initialized, apiKeys>>

\* How a handler not followed step by step here may end: with a result of
\* either kind, or with an exception that none of its own catch blocks holds.
HandlerOutcomes ==
  { Returned(TRUE, None),
    Returned(FALSE, "No domains specified for batch crawling"),
    Threw(Thrown("Cannot read properties of undefined (reading 'data')")),
    Threw(NonError) }

\* The other handlers (analyzeIndustry, findSources, batchCrawl, ...).
HandlerStep(out) ==
  /\ OnlyExec
  /\ exec.pc = "handler"
  /\ Finish(exec, out)
  /\ UNCHANGED <<initialized, apiKeys>>

NextExec ==
  \/ \E env \in [tavily : BOOLEAN, perplexity : BOOLEAN, serper : BOOLEAN] : Initialize(env)
  \/ \E agent \in AgentIds, type \in TaskTypes, input \in TaskInputs :
       ExecBegin(agent, type, input)
  \/ \E resp \in SearchResponses, query \in Queries : SearchStep(resp, query)
  \/ DiscoveryReturn
  \/ \E tavResp \in ExtractResponses, pageResp \in PageResponses : CrawlStep(tavResp, pageResp)
  \/ \E cached \in BOOLEAN, underLimit \in BOOLEAN : ResearchStart(cached, underLimit)
  \/ \E resp \in SearchResponses : ResearchQueryStep(resp)
  \/ \E kind \in SearchKinds, underLimit \in BOOLEAN, highValueUrls \in BOOLEAN :
       ResearchReturn(kind, underLimit, highValueUrls)
  \/ \E out \in HandlerOutcomes : HandlerStep(out)

(***************************************************************************)
(* CrawlingAgent.batchCrawl: batches of crawls and the delay between them. *)
(***************************************************************************)
concurrencyLimit == 3

BatchDelayMs == 2000

\* Time passes in steps of half a delay, for three delays at most.
TickMs == BatchDelayMs \div 2

MaxTime == 3 * BatchDelayMs

IdleBatch ==
  [pc |-> "idle", n |-> 0, i |-> 0, due |-> 0, settledAt |-> 0,
   outcomes |-> <<>>, results |-> <<>>, successful |-> 0, failed |-> 0,
   result |-> NoResult,
   \* history: how many crawls of the call fulfilled with a failure, and how many rejected
   sawFailure |-> 0, sawRejected |-> 0]

InitCrawl ==
  /\ batch = IdleBatch
  /\ inFlight = {}
  /\ now = 0
  /\ starts = <<>>

\* A batch that takes every domain that is left.
BatchOf_Rest(i, n) == (i + 1)..n

\* task.domains.slice(i, i + concurrencyLimit), as indexes from 1.
BatchOf(i, n) == (i + 1)..Min(i + concurrencyLimit, n)

\* batchCrawl(task) up to the loop: a task without domains fails at once.
BatchBegin(n) ==
  /\ OnlyCrawl
  /\ batch.pc \in {"idle", "done"}
  /\ batch' = IF n = 0
              THEN [IdleBatch EXCEPT !.pc = "done",
                      !.result = [settled |-> "fulfilled", success |-> FALSE,
                                  error |-> "No domains specified for batch crawling"]]
              ELSE [IdleBatch EXCEPT !.pc = "start", !.n = n]
  /\ inFlight' = {}
  /\ now' = 0
  /\ starts' = <<>>

\* The head of the loop body: batch.map(domain => this.performCrawl(...))
\* starts every crawl of the batch, then Promise.allSettled is awaited.
StartBatch ==
  /\ OnlyCrawl
  /\ batch.pc = "start"
  /\ LET b == BatchOf(batch.i, batch.n) IN
     /\ inFlight' = inFlight \cup b
     /\ starts' = Append(starts, [first |-> batch.i + 1, size |-> Cardinality(b),
                                   at |-> now, pending |-> Cardinality(inFlight),
                                   prevSettledAt |-> batch.settledAt])
  /\ batch' = [batch EXCEPT !.pc = "wait"]
  /\ UNCHANGED now

\* How a performCrawl promise may settle: fulfilled with a success or with
\* a failure result; Promise.allSettled also takes a rejection.
CrawlOutcomes == {"success", "failure", "rejected"}

\* One performCrawl promise settles.
CrawlSettle(d, outcome) ==
  /\ OnlyCrawl
  /\ d \in inFlight
  /\ inFlight' = inFlight \ {d}
  /\ batch' = [batch EXCEPT !.outcomes = (d :> outcome) @@ @,
                             !.sawFailure = @ + (IF outcome = "failure" THEN 1 ELSE 0),
                             !.sawRejected = @ + (IF outcome = "rejected" THEN 1 ELSE 0)]
  /\ UNCHANGED <<now, starts>>

\* A forEach that pushes the fulfilled results only.
BatchResults_FulfilledOnly(i, n, outcomes) ==
  LET all == [k \in 1..Cardinality(BatchOf(i, n)) |-> i + k]
      kept == SelectSeq(all, LAMBDA d : outcomes[d] # "rejected")
  IN [k \in 1..Len(kept) |-> [domain |-> kept[k], success |-> outcomes[kept[k]] = "success"]]

\* batchResults.forEach: one record per domain of the batch, in batch order;
\* the value of a fulfilled crawl, a failure record for a rejected one.
BatchResults(i, n, outcomes) ==
  [k \in 1..Cardinality(BatchOf(i, n)) |->
     [domain |-> i + k, success |-> outcomes[i + k] = "success"]]

\* Promise.allSettled resolves: the results are pushed, and the delay is
\* started when domains are left (i + concurrencyLimit < task.domains.length).
AllSettled ==
  /\ OnlyCrawl
  /\ batch.pc = "wait"
  /\ \A d \in BatchOf(batch.i, batch.n) : d \notin inFlight
  /\ batch' = [batch EXCEPT
                 !.results = @ \o BatchResults(batch.i, batch.n, batch.outcomes),
                 !.outcomes = <<>>,
                 !.settledAt = now,
                 !.due = now + BatchDelayMs,
                 !.pc = IF batch.i + concurrencyLimit < batch.n THEN "delay" ELSE "finish"]
  /\ UNCHANGED <<inFlight, now, starts>>

\* The timer of delay(2000) fires and the loop goes on (i += concurrencyLimit).
DelayElapsed ==
  /\ OnlyCrawl
  /\ batch.pc = "delay"
  /\ now >= batch.due
  /\ batch' = [batch EXCEPT !.pc = "start", !.i = @ + concurrencyLimit]
  /\ UNCHANGED <<inFlight, now, starts>>

\* After the loop: the message to 'analysis_agent' when a crawl succeeded,
\* and the result, success = successful.length > 0.
BatchReturn ==
  /\ OnlyCrawl
  /\ batch.pc = "finish"
  /\ LET successful == SelectSeq(batch.results, LAMBDA r : r.success)
         failed == SelectSeq(batch.results, LAMBDA r : ~r.success)
     IN batch' = [batch EXCEPT !.pc = "done",
                    !.successful = Len(successful),
                    !.failed = Len(failed),
                    !.result = [settled |-> "fulfilled", success |-> Len(successful) > 0,
                                error |-> None]]
  /\ UNCHANGED <<inFlight, now, starts>>

\* Time passes while the call waits on crawls or on the timer.
Tick ==
  /\ OnlyCrawl
  /\ batch.pc \in {"wait", "delay"}
  /\ now < MaxTime
  /\ now' = now + TickMs
  /\ UNCHANGED <<batch, inFlight, starts>>

NextCrawl ==
  \/ \E n \in 0..MaxDomains : BatchBegin(n)
  \/ StartBatch
  \/ \E d \in 1..MaxDomains, outcome \in CrawlOutcomes : CrawlSettle(d, outcome)
  \/ AllSettled
  \/ DelayElapsed
  \/ BatchReturn
  \/ Tick

(***************************************************************************)
(* handleMessage: the calls one delivered message sets off.                *)
(***************************************************************************)
MessageTypes == {"task", "result", "error", "status"}

\* The 'task' payloads agents send from inside execute, besides the task
\* types of the three switches.
SentTaskTypes == {"new_competitors", "analyze_content", "batch_analyze", "competitor_change",
                  "monitor_changes"}

PayloadTypes == UNION {KnownTypes(a) : a \in AgentIds} \cup SentTaskTypes

Msg(type, payload) == [type |-> type, payload |-> payload]

\* The messages execute(task) sends through sendMessage while it handles a
\* task of this type, in order, when every condition to send holds.
ExecuteSends(agent, payload) ==
  IF payload \notin KnownTypes(agent) THEN <<>>
  ELSE CASE payload = "discover_competitors" -> <<Msg("task", "new_competitors")>>
         [] payload \in {"crawl_domain", "new_competitors"} -> <<Msg("task", "analyze_content")>>
         [] payload = "batch_crawl" -> <<Msg("task", "batch_analyze")>>
         [] payload = "monitor_changes" -> <<Msg("task", "competitor_change")>>
         [] payload \in {"deep_research", "market_intelligence", "trend_analysis",
                         "source_verification", "contextual_research"} ->
              <<Msg("result", None), Msg("task", "monitor_changes")>>
         [] OTHER -> <<>>

\* handleMessage(message): the messages it sends, in order. 'task' runs
\* execute on the payload and sends the result to message.from; 'status',
\* in the discovery and crawling agents, sends a 'status' message to
\* message.from; anything else is logged.
HandleSends(agent, msg, notify) ==
  CASE msg.type = "task" ->
         (IF notify THEN ExecuteSends(agent, msg.payload) ELSE <<>>) \o <<Msg("result", None)>>
    [] msg.type = "status" /\ agent \in {"discovery_agent", "crawling_agent"} ->
         <<Msg("status", None)>>
    [] OTHER -> <<>>

\* The addressee sendMessage is given for each 'task' payload.
Addressee(payload) ==
  CASE payload \in {"new_competitors", "monitor_changes"} -> "crawling_agent"
    [] payload \in {"analyze_content", "batch_analyze"} -> "analysis_agent"
    [] payload = "competitor_change" -> "alert_agent"
    [] OTHER -> None

NoSent == [payload |-> None, to |-> None, handler |-> None]

InitMsg ==
  /\ lastSent = NoSent
  /\ stack = <<>>
  /\ chainEnd = [agent |-> None, type |-> None, how |-> None, calls |-> 0]

\* A message reaches an agent's handleMessage (from the orchestrator's
\* routeMessage).
Deliver(agent, type, payload, notify) ==
  /\ OnlyMsg
  /\ stack = <<>>
  /\ type = "task" \/ payload = None
  /\ stack' = <<[msg |-> Msg(type, payload), todo |-> HandleSends(agent, Msg(type, payload), notify)]>>
  /\ chainEnd' = [agent |-> agent, type |-> type, how |-> "running", calls |-> 1]
  /\ lastSent' = NoSent

\* The innermost handleMessage sends its next message: BaseAgent.sendMessage
\* builds it with from = the agent's own id and calls the agent's own
\* handleMessage with it. The call does not fit when the stack is full.
SendNext ==
  /\ OnlyMsg
  /\ stack # <<>>
  /\ LET top == stack[Len(stack)] IN
     /\ top.todo # <<>>
     /\ IF Len(stack) >= StackLimit
        THEN /\ stack' = <<>>
             /\ chainEnd' = [chainEnd EXCEPT !.how = "stack exhausted"]
             /\ UNCHANGED lastSent
        ELSE /\ stack' = Append([stack EXCEPT ![Len(stack)].todo = Tail(top.todo)],
                                [msg |-> Head(top.todo),
                                 todo |-> HandleSends(chainEnd.agent, Head(top.todo), TRUE)])
             /\ chainEnd' = [chainEnd EXCEPT !.calls = @ + 1]
             /\ lastSent' = IF Head(top.todo).type = "task"
                             THEN [payload |-> Head(top.todo).payload,
                                   to |-> Addressee(Head(top.todo).payload),
                                   handler |-> chainEnd.agent]
                             ELSE lastSent

\* The innermost handleMessage has nothing left to send and returns.
HandleReturn ==
  /\ OnlyMsg
  /\ stack # <<>>
  /\ stack[Len(stack)].todo = <<>>
  /\ stack' = SubSeq(stack, 1, Len(stack) - 1)
  /\ chainEnd' = IF Len(stack) = 1 THEN [chainEnd EXCEPT !.how = "returned"] ELSE chainEnd
  /\ UNCHANGED lastSent

NextMsg ==
  \/ \E agent \in AgentIds, type \in MessageTypes, payload \in PayloadTypes \cup {None},
        notify \in BOOLEAN : Deliver(agent, type, payload, notify)
  \/ SendNext
  \/ HandleReturn

(***************************************************************************)
(* AgentOrchestrator: the message queue and its processing loops;          *)
(* AgentManager.initialize and shutdown.                                   *)
(***************************************************************************)
\* Two requests may be in the manager at a time.
Callers == {"first", "second"}

NoMsg == [id |-> 0, to |-> None, type |-> None]

\* The targets of queued messages: an agent whose 'status' case answers, one
\* without such a case, and an id no agent is registered under.
QueueTargets == {"discovery_agent", "research_agent", "analysis_agent"}

\* The message types put on the queue: one whose handling returns in every
\* agent and one whose handling does not.
QueuedTypes == {"task", "status"}

InitQueue ==
  /\ messageQueue = <<>>
  /\ isProcessing = FALSE
  /\ loops = <<>>
  /\ mgr = [c \in Callers |-> "idle"]
  /\ queueLog = [added |-> 0, taken |-> <<>>, handed |-> {}, lost |-> {}]

RemoveAt(seq, k) == SubSeq(seq, 1, k - 1) \o SubSeq(seq, k + 1, Len(seq))

\* addMessage(message): messageQueue.push(message).
AddMessage(to, type) ==
  /\ OnlyQueue
  /\ queueLog.added < MaxMessages
  /\ messageQueue' = Append(messageQueue, [id |-> queueLog.added + 1, to |-> to, type |-> type])
  /\ queueLog' = [queueLog EXCEPT !.added = @ + 1]
  /\ UNCHANGED <<isProcessing, loops, mgr, agents, initialized, agentStatus>>

\* A loop that takes the newest message (pop) where the code takes the oldest.
TakeMessage_Pop(queue) ==
  [msg |-> queue[Len(queue)], rest |-> SubSeq(queue, 1, Len(queue) - 1)]

\* messageQueue.shift().
TakeMessage(queue) == [msg |-> Head(queue), rest |-> Tail(queue)]

\* routeMessage that throws for an unknown target, as executeTask does.
RouteMessage_Throws(registry, msg) ==
  [handed |-> msg.to \in registry, threw |-> msg.to \notin registry, requeued |-> FALSE]

\* routeMessage(message): agents.get(message.to); the agent's handleMessage
\* is awaited when there is one, and nothing happens when there is none.
RouteMessage(registry, msg) ==
  [handed |-> msg.to \in registry, threw |-> FALSE, requeued |-> FALSE]

\* A handleMessage that never returns normally: the 'status' case of the
\* discovery and crawling agents (see HandleSends).
HandlingFails(msg) ==
  msg.type = "status" /\ msg.to \in {"discovery_agent", "crawling_agent"}

\* One turn of the while loop, from the test of the queue to the next await:
\* the oldest message is shifted off and routed; the loop then waits for
\* handleMessage, or for the 100 ms timer.
LoopTurn(k, running) ==
  IF messageQueue = <<>>
  THEN /\ loops' = IF k > Len(running) THEN Append(running, [pc |-> "sleeping", msg |-> NoMsg])
                   ELSE [running EXCEPT ![k] = [pc |-> "sleeping", msg |-> NoMsg]]
       /\ UNCHANGED <<messageQueue, queueLog>>
  ELSE LET t == TakeMessage(messageQueue)
           r == RouteMessage(agents, t.msg)
           q == IF r.requeued THEN Append(t.rest, t.msg) ELSE t.rest
           turn == IF r.handed THEN [pc |-> "routing", msg |-> t.msg]
                   ELSE [pc |-> "sleeping", msg |-> NoMsg]
       IN /\ messageQueue' = q
          /\ queueLog' = [queueLog EXCEPT
                            !.taken = Append(@, [id |-> t.msg.id,
                                                 registered |-> t.msg.to \in agents]),
                            !.handed = IF r.handed THEN @ \cup {t.msg.id} ELSE @,
                            !.lost = IF r.threw THEN @ \cup {t.msg.id} ELSE @]
          /\ loops' = IF r.threw
                      THEN (IF k > Len(running) THEN running ELSE RemoveAt(running, k))
                      ELSE IF k > Len(running) THEN Append(running, turn)
                      ELSE [running EXCEPT ![k] = turn]

\* AgentManager.initialize up to the await in startAll: the early return
\* when initialized is set, else the agents are constructed, registered
\* and started.
MgrInitialize(c) ==
  /\ OnlyQueue
  /\ mgr[c] = "idle"
  /\ ~initialized
  /\ agents' = agents \cup AgentIds
  /\ agentStatus' = [a \in AgentIds |-> "idle"]
  /\ mgr' = [mgr EXCEPT ![c] = "init_starting"]
  /\ UNCHANGED <<initialized, messageQueue, isProcessing, loops, queueLog>>

\* AgentOrchestrator.startAll called on the exported orchestrator, up to its
\* await: every registered agent is started.
StartAll(c) ==
  /\ OnlyQueue
  /\ mgr[c] = "idle"
  /\ agentStatus' = [a \in AgentIds |-> IF a \in agents THEN "idle" ELSE agentStatus[a]]
  /\ mgr' = [mgr EXCEPT ![c] = "direct_starting"]
  /\ UNCHANGED <<agents, initialized, messageQueue, isProcessing, loops, queueLog>>

\* startAll after Promise.all: startMessageProcessing() sets isProcessing and
\* runs the first turn of a new loop; it is not awaited.
StartMessageProcessing(c) ==
  /\ OnlyQueue
  /\ mgr[c] \in {"init_starting", "direct_starting"}
  /\ Len(loops) < MaxLoops
  /\ isProcessing' = TRUE
  /\ LoopTurn(Len(loops) + 1, loops)
  /\ mgr' = [mgr EXCEPT ![c] = IF mgr[c] = "init_starting" THEN "init_started" ELSE "idle"]
  /\ UNCHANGED <<agents, initialized, agentStatus>>

\* AgentManager.initialize after await startAll(): this.initialized = true.
InitializeDone(c) ==
  /\ OnlyQueue
  /\ mgr[c] = "init_started"
  /\ initialized' = TRUE
  /\ mgr' = [mgr EXCEPT ![c] = "idle"]
  /\ UNCHANGED <<agents, agentStatus, messageQueue, isProcessing, loops, queueLog>>

\* AgentOrchestrator.stopAll: isProcessing = false and every registered
\* agent is stopped.
StopAll ==
  /\ OnlyQueue
  /\ isProcessing' = FALSE
  /\ agentStatus' = [a \in AgentIds |-> IF a \in agents THEN "disabled" ELSE agentStatus[a]]
  /\ UNCHANGED <<agents, initialized, messageQueue, loops, mgr, queueLog>>

\* AgentManager.shutdown up to the await in stopAll.
MgrShutdown(c) ==
  /\ OnlyQueue
  /\ mgr[c] = "idle"
  /\ initialized
  /\ isProcessing' = FALSE
  /\ agentStatus' = [a \in AgentIds |-> IF a \in agents THEN "disabled" ELSE agentStatus[a]]
  /\ mgr' = [mgr EXCEPT ![c] = "stopping"]
  /\ UNCHANGED <<agents, initialized, messageQueue, loops, queueLog>>

\* AgentManager.shutdown after await stopAll(): this.initialized = false.
ShutdownDone(c) ==
  /\ OnlyQueue
  /\ mgr[c] = "stopping"
  /\ initialized' = FALSE
  /\ mgr' = [mgr EXCEPT ![c] = "idle"]
  /\ UNCHANGED <<agents, agentStatus, messageQueue, isProcessing, loops, queueLog>>

\* The handleMessage a loop waits for returns; the loop starts its timer.
RouteDone(k) ==
  /\ OnlyQueue
  /\ k \in 1..Len(loops)
  /\ loops[k].pc = "routing"
  /\ ~HandlingFails(loops[k].msg)
  /\ loops' = [loops EXCEPT ![k] = [pc |-> "sleeping", msg |-> NoMsg]]
  /\ UNCHANGED <<agents, initialized, agentStatus, messageQueue, isProcessing, mgr, queueLog>>

\* The handleMessage a loop waits for rejects: startMessageProcessing has no
\* catch, so its promise rejects and the loop is gone.
RouteFails(k) ==
  /\ OnlyQueue
  /\ k \in 1..Len(loops)
  /\ loops[k].pc = "routing"
  /\ HandlingFails(loops[k].msg)
  /\ loops' = RemoveAt(loops, k)
  /\ queueLog' = [queueLog EXCEPT !.lost = @ \cup {loops[k].msg.id}]
  /\ UNCHANGED <<agents, initialized, agentStatus, messageQueue, isProcessing, mgr>>

\* The 100 ms timer of a loop fires: the loop ends when isProcessing is
\* false, else it takes its next turn.
LoopWake(k) ==
  /\ OnlyQueue
  /\ k \in 1..Len(loops)
  /\ loops[k].pc = "sleeping"
  /\ IF ~isProcessing
     THEN /\ loops' = RemoveAt(loops, k)
          /\ UNCHANGED <<messageQueue, queueLog>>
     ELSE LoopTurn(k, loops)
  /\ UNCHANGED <<agents, initialized, agentStatus, isProcessing, mgr>>

NextQueue ==
  \/ \E to \in QueueTargets, type \in QueuedTypes : AddMessage(to, type)
  \/ \E c \in Callers : MgrInitialize(c)
  \/ \E c \in Callers : StartAll(c)
  \/ \E c \in Callers : StartMessageProcessing(c)
  \/ \E c \in Callers : InitializeDone(c)
  \/ StopAll
  \/ \E c \in Callers : MgrShutdown(c)
  \/ \E c \in Callers : ShutdownDone(c)
  \/ \E k \in 1..MaxLoops : RouteDone(k)
  \/ \E k \in 1..MaxLoops : RouteFails(k)
  \/ \E k \in 1..MaxLoops : LoopWake(k)

(***************************************************************************)
(* Strings, as the domain code takes them apart.                           *)
(***************************************************************************)
LowerLetters == "abcdefghijklmnopqrstuvwxyz"

UpperLetters == "ABCDEFGHIJKLMNOPQRSTUVWXYZ"

Digits == "0123456789"

CharAt(s, i) == SubSeq(s, i, i)

Occurs(c, s) == \E i \in 1..Len(s) : CharAt(s, i) = c

LowerChar(c) ==
  IF Occurs(c, UpperLetters)
  THEN CharAt(LowerLetters, CHOOSE i \in 1..Len(UpperLetters) : CharAt(UpperLetters, i) = c)
  ELSE c

\* String.prototype.toLowerCase.
RECURSIVE toLowerCase(_)
toLowerCase(s) ==
  IF s = "" THEN "" ELSE LowerChar(CharAt(s, 1)) \o toLowerCase(Tail(s))

\* String.prototype.startsWith.
startsWith(s, prefix) == Len(s) >= Len(prefix) /\ SubSeq(s, 1, Len(prefix)) = prefix

\* String.prototype.trim, for blanks.
RECURSIVE trim(_)
trim(s) ==
  IF s = "" THEN ""
  ELSE IF CharAt(s, 1) = " " THEN trim(Tail(s))
  ELSE IF CharAt(s, Len(s)) = " " THEN trim(SubSeq(s, 1, Len(s) - 1))
  ELSE s

\* replace(/^https?:\/\//, ''): the pattern is case-sensitive.
StripProtocol(s) ==
  IF startsWith(s, "https://") THEN SubSeq(s, 9, Len(s))
  ELSE IF startsWith(s, "http://") THEN SubSeq(s, 8, Len(s))
  ELSE s

\* replace(/\/$/, ''): one slash at the end is removed.
StripTrailingSlash(s) ==
  IF s # "" /\ CharAt(s, Len(s)) = "/" THEN SubSeq(s, 1, Len(s) - 1) ELSE s

\* The parts of s between its dots.
RECURSIVE SplitDots(_, _)
SplitDots(s, part) ==
  IF s = "" THEN <<part>>
  ELSE IF CharAt(s, 1) = "." THEN <<part>> \o SplitDots(Tail(s), "")
  ELSE SplitDots(Tail(s), part \o CharAt(s, 1))

\* [a-z0-9] under the i flag.
IsAlnum(c) == Occurs(c, LowerLetters) \/ Occurs(c, UpperLetters) \/ Occurs(c, Digits)

MaxLabelLen == 63

\* [a-z0-9](?:[a-z0-9-]{0,61}[a-z0-9])? matched against a whole part.
IsLabel(part) ==
  /\ Len(part) \in 1..MaxLabelLen
  /\ IsAlnum(CharAt(part, 1))
  /\ IsAlnum(CharAt(part, Len(part)))
  /\ \A i \in 1..Len(part) : IsAlnum(CharAt(part, i)) \/ CharAt(part, i) = "-"

\* domainRegex.test(s): ^(?:label\.)+label$ -- two labels or more, with dots
\* between them, and nothing else.
domainRegexTest(s) ==
  LET parts == SplitDots(s, "")
  IN /\ Len(parts) >= 2
     /\ \A k \in 1..Len(parts) : IsLabel(parts[k])

(***************************************************************************)
(* DatabaseService (the domains collection).                               *)
(***************************************************************************)
\* The signed-in user.
SessionUser == "user_1"

\* createDomain: crawlFrequency and isActive get defaults, the document gets
\* a fresh id.
CreateDomainDoc(docs, fields) ==
  Append(docs, [id |-> Len(docs) + 1,
                userId |-> fields.userId,
                domain |-> fields.domain,
                isActive |-> IF "isActive" \in DOMAIN fields THEN fields.isActive ELSE TRUE])

\* An update that changes the timestamp only.
UpdateDomainDoc_TimestampOnly(docs, domainId, updates) == docs

\* updateDomain: the fields of updates replace the document's.
UpdateDomainDoc(docs, domainId, updates) ==
  [docs EXCEPT ![domainId] =
     [f \in DOMAIN @ |-> IF f \in DOMAIN updates THEN updates[f] ELSE @[f]]]

Reverse(s) == [i \in 1..Len(s) |-> s[Len(s) + 1 - i]]

\* getUserDomains: the user's documents, newest first.
GetUserDomains(docs, userId) ==
  LET Mine(doc) == doc.userId = userId
  IN Reverse(SelectSeq(docs, Mine))

\* getDomain.
GetDomain(docs, domainId) == docs[domainId]

(***************************************************************************)
(* AddDomainForm, and the dashboard page with its DomainList.              *)
(***************************************************************************)
MaxDocs == 2

\* What is typed into the domain field.
DomainInputs ==
  {"example.com", "Example.COM", "example.com/", "https://example.com",
   "http://example.com/", "HTTPS://example.com", "rival-1.io",
   "example.com//", "example", "-bad.com", "bad-.com", "exa mple.com",
   "example..com", "ftp://example.com", "example.com/pricing", "  "}

\* What is typed into the name field.
NameInputs == {"Acme", " "}

DomainRequired == "Domain is required"

InvalidDomain == "Please enter a valid domain (e.g., example.com)"

NameRequired == "Competitor name is required"

AddFailed == "Failed to add domain. Please try again."

\* A validator that lets every domain through.
validateDomain_Any(domain) == TRUE

\* validateDomain.
validateDomain(domain) ==
  domainRegexTest(StripTrailingSlash(StripProtocol(toLowerCase(domain))))

\* The stored form without the https:// default.
EnsureUrl_AsTyped(domain) == StripTrailingSlash(toLowerCase(domain))

\* "Ensure domain is in URL format": lower case, no slash at the end, and
\* https:// in front unless a protocol is there.
EnsureUrl(domain) ==
  LET cleanDomain == StripTrailingSlash(toLowerCase(domain))
  IN IF ~startsWith(cleanDomain, "http://") /\ ~startsWith(cleanDomain, "https://")
     THEN "https://" \o cleanDomain
     ELSE cleanDomain

\* What handleSubmit computes from the domain typed in: whether it is blank,
\* whether validateDomain accepts it, and the URL form it is stored in.
SubmitChecks ==
  [input \in DomainInputs |->
     [blank |-> trim(input) = "", valid |-> validateDomain(input), url |-> EnsureUrl(input)]]

\* The fields of a document the page and DomainList read.
PageEntry(doc) == [id |-> doc.id, isActive |-> doc.isActive]

NoToggle == [id |-> 0, wrote |-> FALSE, ok |-> FALSE, reloaded |-> FALSE]

InitForm ==
  /\ domainDocs = <<>>
  /\ form = [error |-> "", input |-> "", before |-> 0, created |-> 0]
  /\ pageDomains = <<>>
  /\ lastToggle = NoToggle

\* handleSubmit: the three validations, then createDomain and onDomainAdded
\* (the page puts the new document first); a createDomain that throws
\* leaves its message in error.
HandleSubmit(input, name, dbOk) ==
  /\ OnlyDomains
  /\ UNCHANGED <<lastToggle, dashDomains, addingDomain, addLog>>
  /\ LET rejected == IF SubmitChecks[input].blank THEN DomainRequired
                     ELSE IF ~SubmitChecks[input].valid THEN InvalidDomain
                     ELSE IF trim(name) = "" THEN NameRequired
                     ELSE ""
         docs == CreateDomainDoc(domainDocs,
                   [userId |-> SessionUser, domain |-> SubmitChecks[input].url, isActive |-> TRUE])
     IN IF rejected # ""
        THEN /\ form' = [error |-> rejected, input |-> input,
                         before |-> Len(domainDocs), created |-> 0]
             /\ UNCHANGED <<domainDocs, pageDomains>>
        ELSE IF dbOk /\ Len(domainDocs) < MaxDocs
        THEN /\ domainDocs' = docs
             /\ pageDomains' = <<PageEntry(docs[Len(docs)])>> \o pageDomains
             /\ form' = [error |-> "", input |-> input,
                         before |-> Len(domainDocs), created |-> Len(docs)]
        ELSE /\ form' = [error |-> AddFailed, input |-> input,
                         before |-> Len(domainDocs), created |-> 0]
             /\ UNCHANGED <<domainDocs, pageDomains>>

\* The page loads: getUserDomains, setDomains.
PageLoad ==
  /\ OnlyDomains
  /\ UNCHANGED <<domainDocs, form, dashDomains, addingDomain, addLog>>
  /\ LET userDomains == GetUserDomains(domainDocs, SessionUser)
     IN pageDomains' = [k \in 1..Len(userDomains) |-> PageEntry(userDomains[k])]
  /\ lastToggle' = IF lastToggle.id = 0 THEN lastToggle ELSE [lastToggle EXCEPT !.reloaded = TRUE]

\* DomainList.toggleDomainStatus(domain): toggleDomainStatus(domain.$id,
\* !domain.isActive), then onDomainUpdated puts the returned document in the
\* page's list; a call that throws is logged.
ToggleDomainStatus(k, dbOk) ==
  /\ OnlyDomains
  /\ UNCHANGED <<form, dashDomains, addingDomain, addLog>>
  /\ k \in 1..Len(pageDomains)
  /\ LET domain == pageDomains[k]
         docs == UpdateDomainDoc(domainDocs, domain.id, [isActive |-> ~domain.isActive])
     IN /\ lastToggle' = [id |-> domain.id, wrote |-> ~domain.isActive, ok |-> dbOk,
                          reloaded |-> FALSE]
        /\ IF dbOk
           THEN /\ domainDocs' = docs
                /\ pageDomains' = [j \in 1..Len(pageDomains) |->
                                     IF pageDomains[j].id = domain.id
                                     THEN PageEntry(docs[domain.id]) ELSE pageDomains[j]]
           ELSE UNCHANGED <<domainDocs, pageDomains>>

NextForm ==
  \/ \E input \in DomainInputs, name \in NameInputs, dbOk \in BOOLEAN :
       HandleSubmit(input, name, dbOk)
  \/ PageLoad
  \/ \E k \in 1..MaxDocs, dbOk \in BOOLEAN : ToggleDomainStatus(k, dbOk)

(***************************************************************************)
(* AgentDashboard: adding a discovered competitor to monitoring.           *)
(***************************************************************************)
MaxAdds == 3

\* The domains of the competitors a discovery listed.
CompetitorDomains == {"example.com", "rival-1.io"}

\* normalizeUrl: protocol off, one slash at the end off, lower case.
normalizeUrl(url) == toLowerCase(StripTrailingSlash(StripProtocol(url)))

\* domains.find / domains.some of the dashboard: a listed domain with the
\* same normal form.
Monitored(listed, domain) ==
  \E k \in 1..Len(listed) : normalizeUrl(listed[k].domain) = normalizeUrl(domain)

InitDash ==
  /\ dashDomains = <<>>
  /\ addingDomain = None
  /\ addLog = <<>>

InitDomains == InitForm /\ InitDash

\* loadData: getUserDomains, setDomains.
DashLoad ==
  /\ OnlyDomains
  /\ UNCHANGED <<domainDocs, form, pageDomains, lastToggle, addingDomain, addLog>>
  /\ dashDomains' = GetUserDomains(domainDocs, SessionUser)

\* A click on a competitor's add button, which is disabled while that
\* competitor is being added or is listed: addCompetitorToMonitoring up to
\* its await of createDomain, or to the warning and the finally block.
AddCompetitorToMonitoring(domain) ==
  /\ OnlyDomains
  /\ UNCHANGED <<domainDocs, form, pageDomains, lastToggle, dashDomains>>
  /\ Len(addLog) < MaxAdds
  /\ addingDomain # domain
  /\ ~Monitored(dashDomains, domain)
  /\ LET call == [domain |-> domain, doc |-> 0,
                  existed |-> Monitored(domainDocs, domain),
                  stage |-> IF Monitored(dashDomains, domain) THEN "warned" ELSE "creating"]
     IN /\ addLog' = Append(addLog, call)
        /\ addingDomain' = IF call.stage = "warned" THEN None ELSE domain

\* The createDomain request of a call reaches the database, or fails.
CreateDomainLands(k, dbOk) ==
  /\ OnlyDomains
  /\ UNCHANGED <<form, pageDomains, lastToggle, dashDomains, addingDomain>>
  /\ k \in 1..Len(addLog)
  /\ addLog[k].stage = "creating"
  /\ IF dbOk /\ Len(domainDocs) < MaxDocs
     THEN /\ domainDocs' = CreateDomainDoc(domainDocs,
                             [userId |-> SessionUser, domain |-> EnsureUrl(addLog[k].domain),
                              isActive |-> TRUE])
          /\ addLog' = [addLog EXCEPT ![k].stage = "created", ![k].doc = Len(domainDocs) + 1]
     ELSE /\ addLog' = [addLog EXCEPT ![k].stage = "rejected"]
          /\ UNCHANGED domainDocs

\* addCompetitorToMonitoring after its await: the new document is put first
\* in the list and a success toast is shown, or the error toast; finally
\* setAddingDomain(null).
AddCompetitorResumes(k) ==
  /\ OnlyDomains
  /\ UNCHANGED <<domainDocs, form, pageDomains, lastToggle>>
  /\ k \in 1..Len(addLog)
  /\ addLog[k].stage \in {"created", "rejected"}
  /\ IF addLog[k].stage = "created"
     THEN /\ dashDomains' = <<domainDocs[addLog[k].doc]>> \o dashDomains
          /\ addLog' = [addLog EXCEPT ![k].stage = "added"]
     ELSE /\ addLog' = [addLog EXCEPT ![k].stage = "failed"]
          /\ UNCHANGED dashDomains
  /\ addingDomain' = None

NextDash ==
  \/ DashLoad
  \/ \E domain \in CompetitorDomains : AddCompetitorToMonitoring(domain)
  \/ \E k \in 1..MaxAdds, dbOk \in BOOLEAN : CreateDomainLands(k, dbOk)
  \/ \E k \in 1..MaxAdds : AddCompetitorResumes(k)

(***************************************************************************)
(* The research route: PATCH.                                              *)
(***************************************************************************)
\* The task ids a request body carries; None is a body without one.
TaskIds == {None, "task_1"}

PatchActions == {"cancel", "status", "pause"}

NoResponse == [status |-> 0]

NoPatch == [caller |-> None, taskId |-> None, action |-> None, stage |-> "none",
            booted |-> FALSE, response |-> NoResponse]

InitPatch == patch = NoPatch

\* A 'cancel' case that cancels: the running jobs are marked failed.
PatchCase_Cancels(action, taskId, jobDocs) ==
  [response |-> [status |-> 200, success |-> TRUE,
                 message |-> "Research task " \o taskId \o " has been cancelled"],
   jobs |-> [id \in 1..Len(jobDocs) |->
               IF action = "cancel" /\ jobDocs[id].status = "running"
               THEN [jobDocs[id] EXCEPT !.status = "failed"] ELSE jobDocs[id]]]

\* switch (action): the response of each case, and the jobs collection after
\* it -- no case reads or writes anything.
PatchCase(action, taskId, jobDocs) ==
  [response |->
     CASE action = "cancel" ->
            [status |-> 200, success |-> TRUE,
             message |-> "Research task " \o taskId \o " has been cancelled"]
       [] action = "status" ->
            [status |-> 200, taskId |-> taskId, state |-> "running", progress |-> 65]
       [] OTHER ->
            [status |-> 400, error |-> "Invalid action. Supported actions: cancel, status"],
   jobs |-> jobDocs]

\* The switch is reached: the response is sent.
PatchAnswer(p) ==
  LET case == PatchCase(p.action, p.taskId, jobs)
  IN /\ patch' = [p EXCEPT !.stage = "answered", !.response = case.response]
     /\ jobs' = case.jobs

\* PATCH(request) up to its response or, when the agent system is not
\* initialized, up to the await inside agentManager.initialize(): a body
\* that does not parse is answered 500 by the catch block, a body without
\* taskId 400.
PATCH(c, bodyOk, taskId, action) ==
  /\ UNCHANGED <<statusLog, jobFate, flow, uiJobs, execLog, lastCall, initialized, apiKeys,
                 exec, crawlVars, msgVars, messageQueue, isProcessing, loops, queueLog,
                 domainVars, laterVars>>
  /\ mgr[c] = "idle"
  /\ patch.stage # "initializing"
  /\ LET p == [NoPatch EXCEPT !.caller = c, !.taskId = taskId, !.action = action]
     IN IF ~bodyOk
        THEN /\ patch' = [NoPatch EXCEPT
                            !.caller = c, !.stage = "answered",
                            !.response = [status |-> 500, error |-> "Failed to manage research task"]]
             /\ UNCHANGED <<jobs, agents, agentStatus, mgr>>
        ELSE IF taskId = None
        THEN /\ patch' = [p EXCEPT !.stage = "answered",
                                   !.response = [status |-> 400, error |-> "Task ID is required"]]
             /\ UNCHANGED <<jobs, agents, agentStatus, mgr>>
        ELSE IF initialized
        THEN /\ PatchAnswer(p)
             /\ UNCHANGED <<agents, agentStatus, mgr>>
        ELSE /\ patch' = [p EXCEPT !.stage = "initializing", !.booted = TRUE]
             /\ agents' = agents \cup AgentIds
             /\ agentStatus' = [a \in AgentIds |-> "idle"]
             /\ mgr' = [mgr EXCEPT ![c] = "init_starting"]
             /\ UNCHANGED jobs

\* PATCH after await agentManager.initialize(): the switch.
PatchResumes ==
  /\ UNCHANGED <<statusLog, jobFate, flow, uiJobs, orchVars, execVars, crawlVars, msgVars,
                 queueVars, domainVars, laterVars>>
  /\ patch.stage = "initializing"
  /\ mgr[patch.caller] = "idle"
  /\ PatchAnswer(patch)

\* The input of the task in execution when a request comes in.
RunningInput == [industry |-> TRUE, keywords |-> 1, domains |-> 0, focusAreas |-> 0]

\* The PATCH handler next to what it could disturb: jobs being created and
\* set running by the research panel, an agent task in execution, messages
\* queued and the message loop.
NextPatch ==
  \/ \E c \in Callers, bodyOk \in BOOLEAN, taskId \in TaskIds, action \in PatchActions :
       PATCH(c, bodyOk, taskId, action)
  \/ PatchResumes
  \/ \E c \in Callers : StartMessageProcessing(c)
  \/ \E c \in Callers : InitializeDone(c)
  \/ AddMessage("research_agent", "task")
  \/ \E k \in 1..MaxLoops : RouteDone(k)
  \/ \E k \in 1..MaxLoops : LoopWake(k)
  \/ StartJob("research")
  \/ SetRunning("research")
  \/ ExecBegin("discovery_agent", "discover_competitors", RunningInput)

(***************************************************************************)
(* The agents' status while execute calls run, start and stop.             *)
(***************************************************************************)
MaxOverlap == 2

\* How an execute call comes about: executeTask of the orchestrator, or the
\* 'task' case of handleMessage for a message the agent's running task sent.
ExecuteCallers == {"orchestrator", "message"}

InitStatus == tasks = [active |-> [a \in AgentIds |-> 0], ranStopped |-> FALSE]

\* stopAll has run and no startAll has begun since: isProcessing is false
\* (only stopAll clears it, only startAll's startMessageProcessing sets it),
\* agents are registered and no caller is inside startAll.
Stopped ==
  /\ ~isProcessing
  /\ agents # {}
  /\ \A c \in Callers : mgr[c] \notin {"init_starting", "direct_starting"}

OnlyStatus ==
  UNCHANGED <<jobVars, orchVars, crawlVars, msgVars, queueVars, domainVars, patch,
              initialized, apiKeys, exec, rateVars, limitVars, cacheVars>>

\* execute(task) begins: this.config.status = 'working'. executeTask calls
\* it for any registered agent, whatever the agent's status or isRunning.
ExecuteStarts(agent, via) ==
  /\ OnlyStatus
  /\ tasks.active[agent] < MaxOverlap
  /\ IF via = "orchestrator" THEN agent \in agents ELSE tasks.active[agent] > 0
  /\ agentStatus' = [agentStatus EXCEPT ![agent] = "working"]
  /\ tasks' = [active |-> [tasks.active EXCEPT ![agent] = @ + 1],
               ranStopped |-> tasks.ranStopped \/ (via = "orchestrator" /\ Stopped)]

\* An execute call ends: the finally block sets this.config.status = 'idle'
\* (after the catch block's 'error', when it threw).
ExecuteReturns(agent) ==
  /\ OnlyStatus
  /\ tasks.active[agent] > 0
  /\ agentStatus' = [agentStatus EXCEPT ![agent] = "idle"]
  /\ tasks' = [tasks EXCEPT !.active[agent] = @ - 1]

NextStatus ==
  \/ \E c \in Callers : MgrInitialize(c)
  \/ \E c \in Callers : StartAll(c)
  \/ \E c \in Callers : StartMessageProcessing(c)
  \/ \E c \in Callers : InitializeDone(c)
  \/ StopAll
  \/ \E c \in Callers : MgrShutdown(c)
  \/ \E c \in Callers : ShutdownDone(c)
  \/ \E k \in 1..MaxLoops : LoopWake(k)
  \/ \E agent \in AgentIds, via \in ExecuteCallers : ExecuteStarts(agent, via)
  \/ \E agent \in AgentIds : ExecuteReturns(agent)

(***************************************************************************)
(* CrawlingAgent: the per-domain rate limit of performCrawl.               *)
(***************************************************************************)
RequestsPerMinute == 10
RateWindowMs == 60000
MinDelayMs == 6000

MaxCrawls == 12
MaxRateTicks == 11

\* One host, as callers give it: bare, with a protocol, with a final slash.
CrawlInputs == {"example.com", "https://example.com", "example.com/"}

\* performCrawl's cleanDomain.
CleanDomain(domain) == StripTrailingSlash(StripProtocol(domain))

CleanOf == [domain \in CrawlInputs |-> CleanDomain(domain)]

RateKeys == CrawlInputs

NoLimit == [lastRequest |-> -1, requestCount |-> 0]

InitRate ==
  /\ rateLimits = [k \in RateKeys |-> NoLimit]
  /\ rateNow = 0
  /\ crawl = [pc |-> "idle", domain |-> None, wake |-> 0]
  /\ burst = [start |-> 0, count |-> 0]

OnlyRate ==
  UNCHANGED <<jobVars, orchVars, execVars, crawlVars, msgVars, queueVars, domainVars, patch,
              statusVars, limitVars, cacheVars>>

\* checkRateLimit(domain): its answer.
CheckRateLimit(limits, domain) ==
  LET limit == limits[domain] IN
  IF limit = NoLimit THEN TRUE
  ELSE IF rateNow - limit.lastRequest > RateWindowMs THEN TRUE
  ELSE limit.requestCount < RequestsPerMinute

\* checkRateLimit(domain): the map it leaves (the counter is reset when
\* more than a minute has passed).
CheckRateLimitSets(limits, domain) ==
  LET limit == limits[domain] IN
  IF limit # NoLimit /\ rateNow - limit.lastRequest > RateWindowMs
  THEN [limits EXCEPT ![domain] = [lastRequest |-> rateNow, requestCount |-> 1]]
  ELSE limits

\* calculateDelayForDomain(domain).
CalculateDelayForDomain(limits, domain) ==
  LET limit == limits[domain] IN
  IF limit = NoLimit THEN 0
  ELSE Max(0, MinDelayMs - (rateNow - limit.lastRequest))

\* updateRateLimit(domain).
UpdateRateLimit(limits, domain) ==
  LET limit == limits[domain] IN
  IF limit = NoLimit \/ rateNow - limit.lastRequest > RateWindowMs
  THEN [limits EXCEPT ![domain] = [lastRequest |-> rateNow, requestCount |-> 1]]
  ELSE [limits EXCEPT ![domain] = [lastRequest |-> rateNow,
                                   requestCount |-> limit.requestCount + 1]]

\* A request leaves for the host: it counts in the window that began with
\* the first request, or begins a new window when that one is over.
Sent(b) ==
  IF b.count = 0 \/ rateNow - b.start >= RateWindowMs
  THEN [start |-> rateNow, count |-> 1]
  ELSE [b EXCEPT !.count = @ + 1]

\* performCrawl from updateRateLimit(cleanDomain) on: the counter is
\* updated under the clean name and the page is requested.
CrawlProceeds(limits, domain) ==
  /\ rateLimits' = UpdateRateLimit(limits, CleanOf[domain])
  /\ burst' = Sent(burst)
  /\ crawl' = [pc |-> "idle", domain |-> None, wake |-> 0]

\* performCrawl(domain) up to its first await: the limit is tested under
\* the name as given; at the limit the call sleeps, else it goes on.
PerformCrawlCall(domain) ==
  /\ OnlyRate
  /\ crawl.pc = "idle"
  /\ burst.count < MaxCrawls
  /\ LET limits == CheckRateLimitSets(rateLimits, domain) IN
     IF CheckRateLimit(rateLimits, domain)
     THEN CrawlProceeds(limits, domain)
     ELSE /\ crawl' = [pc |-> "delayed", domain |-> domain,
                       wake |-> rateNow + CalculateDelayForDomain(limits, domain)]
          /\ rateLimits' = limits
          /\ UNCHANGED burst
  /\ UNCHANGED rateNow

\* The delay is over: performCrawl goes on without testing the limit again.
DelayOver ==
  /\ OnlyRate
  /\ crawl.pc = "delayed"
  /\ rateNow >= crawl.wake
  /\ CrawlProceeds(rateLimits, crawl.domain)
  /\ UNCHANGED rateNow

RateTick ==
  /\ OnlyRate
  /\ rateNow < MaxRateTicks * MinDelayMs
  /\ rateNow' = rateNow + MinDelayMs
  /\ UNCHANGED <<rateLimits, crawl, burst>>

NextRate ==
  \/ \E domain \in CrawlInputs : PerformCrawlCall(domain)
  \/ DelayOver
  \/ RateTick

(***************************************************************************)
(* ResearchAgent: the hourly request limits of Tavily and Perplexity.      *)
(***************************************************************************)
TavilyLimit == 100
PerplexityLimit == 50
LimitWindowMs == 3600000

MaxExtra == 6
MaxHours == 2

Services == {"tavily", "perplexity"}

ServiceLimit(service) == IF service = "tavily" THEN TavilyLimit ELSE PerplexityLimit

\* The two counters are independent (each service's functions touch only
\* its own), so a behaviour follows the requests of one service: the one
\* that is called first.
InitLimits ==
  /\ svcLimits = [s \in Services |-> [requests |-> 0, resetTime |-> 0]]
  /\ svcNow = 0
  /\ svcCall = [left |-> 0]
  /\ issued = [s \in Services |-> 0]
  /\ watched = None

OnlyLimits ==
  UNCHANGED <<jobVars, orchVars, execVars, crawlVars, msgVars, queueVars, domainVars, patch,
              statusVars, rateVars, cacheVars>>

\* checkRateLimit(service): the counters it leaves (a new window begins
\* when resetTime has passed).
ResearchCheckSets(limits, service) ==
  IF svcNow > limits[service].resetTime
  THEN [limits EXCEPT ![service] = [requests |-> 0, resetTime |-> svcNow + LimitWindowMs]]
  ELSE limits

\* checkRateLimit(service): its answer.
ResearchCheckRateLimit(limits, service) ==
  ResearchCheckSets(limits, service)[service].requests < ServiceLimit(service)

\* updateRateLimit(service).
ResearchUpdateRateLimit(limits, service) ==
  [limits EXCEPT ![service].requests = @ + 1]

\* The history follows the agent's windows.
IssuedAfterCheck(service) ==
  IF svcNow > svcLimits[service].resetTime THEN [issued EXCEPT ![service] = 0] ELSE issued

\* searchWithTavily up to its loop (the API key is configured): the limit
\* is tested once, then the call has n queries to send.
SearchWithTavilyCall(n) ==
  /\ OnlyLimits
  /\ watched \in {None, "tavily"}
  /\ watched' = "tavily"
  /\ svcCall.left = 0
  /\ issued.tavily < TavilyLimit + MaxExtra
  /\ svcLimits' = ResearchCheckSets(svcLimits, "tavily")
  /\ issued' = IssuedAfterCheck("tavily")
  /\ svcCall' = [left |-> IF ResearchCheckRateLimit(svcLimits, "tavily") THEN n ELSE 0]
  /\ UNCHANGED svcNow

\* One turn of searchWithTavily's loop: the request is sent; a good
\* response is counted, a failure is caught and the loop goes on.
TavilyRequest(ok) ==
  /\ OnlyLimits
  /\ svcCall.left > 0
  /\ issued' = [issued EXCEPT !.tavily = @ + 1]
  /\ svcLimits' = IF ok THEN ResearchUpdateRateLimit(svcLimits, "tavily") ELSE svcLimits
  /\ svcCall' = [left |-> svcCall.left - 1]
  /\ UNCHANGED <<svcNow, watched>>

\* analyzeWithPerplexity (the API key is configured): the limit is tested,
\* one request is sent; a good response is counted, a failure returns null.
AnalyzeWithPerplexityCall(ok) ==
  /\ OnlyLimits
  /\ watched \in {None, "perplexity"}
  /\ watched' = "perplexity"
  /\ issued.perplexity < PerplexityLimit + MaxExtra
  /\ LET limits == ResearchCheckSets(svcLimits, "perplexity")
         pass == ResearchCheckRateLimit(svcLimits, "perplexity")
         before == IssuedAfterCheck("perplexity") IN
     /\ svcLimits' = IF pass /\ ok THEN ResearchUpdateRateLimit(limits, "perplexity") ELSE limits
     /\ issued' = IF pass THEN [before EXCEPT !.perplexity = @ + 1] ELSE before
  /\ UNCHANGED <<svcNow, svcCall>>

HourPasses ==
  /\ OnlyLimits
  /\ svcNow < MaxHours * LimitWindowMs
  /\ svcNow' = svcNow + LimitWindowMs
  /\ UNCHANGED <<svcLimits, svcCall, issued, watched>>

NextLimits ==
  \/ \E n \in 1..ResearchQueryLimit : SearchWithTavilyCall(n)
  \/ \E ok \in BOOLEAN : TavilyRequest(ok)
  \/ \E ok \in BOOLEAN : AnalyzeWithPerplexityCall(ok)
  \/ HourPasses

(***************************************************************************)
(* ResearchAgent: the research cache of performDeepResearch.               *)
(***************************************************************************)
CacheTtlMs == 3600000

MaxCacheTicks == 2

\* The clock moves in steps of half the cache's lifetime.
CacheTickMs == CacheTtlMs \div 2

\* Task types of execute's switch that go through performDeepResearch.
ResearchTypes == {"deep_research", "market_intelligence", "trend_analysis"}

ResearchQueries == {"acme", "Globex"}

\* task.focusAreas as the caller gives them: none, or one area.
FocusInputs == {{}, {"pricing"}}

\* The tasks have the same context.
ResearchTasks == [type : ResearchTypes, query : ResearchQueries, focusAreas : FocusInputs]

\* The areas a wrapper puts in front of the caller's focus areas.
WrapperFocus(type) ==
  CASE type = "market_intelligence" -> {"market size and growth", "market trends"}
    [] type = "trend_analysis" -> {"emerging trends", "trend analysis"}
    [] OTHER -> {}

\* The task execute's case hands to performDeepResearch: the task itself
\* for 'deep_research', else {...task, type: 'deep_research', focusAreas}.
DeepTask(task) ==
  [type |-> "deep_research", query |-> task.query,
   focusAreas |-> WrapperFocus(task.type) \cup task.focusAreas]

\* generateCacheKey(task): type, query and context, in lower case.
GenerateCacheKey(task) == <<toLowerCase(task.type), toLowerCase(task.query)>>

\* The key of each task, computed once.
KeyTable == {<<t, GenerateCacheKey(DeepTask(t))>> : t \in ResearchTasks}

KeyOf(task) == (CHOOSE p \in KeyTable : p[1] = task)[2]

CacheKeys == {p[2] : p \in KeyTable}

\* The test of a cache entry's age.
CacheFresh_Inclusive(age) == age <= CacheTtlMs

CacheFresh(age) == age < CacheTtlMs

\* The fields of a result that the wrappers write, as performDeepResearch
\* builds them.
FreshData == [taskType |-> None, insights |-> "computed"]

\* What a wrapper does to result.data after performDeepResearch returned.
Enhance(type, data) ==
  CASE type = "market_intelligence" ->
         [data EXCEPT !.taskType = type, !.insights = "market categories"]
    [] type = "trend_analysis" -> [data EXCEPT !.taskType = type]
    [] OTHER -> data

\* No entry under a key. An entry is the result object as it is now and
\* its timestamp, with the history of what was stored and for which task.
NoEntry == [timestamp |-> -1]

NoAnswer == [task |-> None]

InitCache ==
  /\ researchCache = [k \in CacheKeys |-> NoEntry]
  /\ cacheNow = 0
  /\ lastAnswer = NoAnswer

OnlyCache ==
  UNCHANGED <<jobVars, orchVars, execVars, crawlVars, msgVars, queueVars, domainVars, patch,
              statusVars, rateVars, limitVars>>

\* The answer of performDeepResearch to the task, with the age of the
\* entry it found (-1: none): whether it came from the cache, whether
\* external requests were made, and the data.
Answer(task, entry, cached, api, data) ==
  [task |-> task, cached |-> cached, api |-> api, data |-> data,
   entryAge |-> IF entry = NoEntry THEN -1 ELSE cacheNow - entry.timestamp]

\* execute(task) for a research type: performDeepResearch answers from the
\* cache or computes (ok: the computation succeeds) and stores the result
\* object; the wrapper then writes to the object it was handed, which is
\* the object in the cache.
ExecuteResearch(task, ok) ==
  /\ OnlyCache
  /\ LET key == KeyOf(task)
         entry == researchCache[key]
     IN IF entry # NoEntry /\ CacheFresh(cacheNow - entry.timestamp)
        THEN /\ lastAnswer' = Answer(task, entry, TRUE, FALSE, entry.result)
             /\ researchCache' = [researchCache EXCEPT
                                    ![key].result = Enhance(task.type, @)]
        ELSE IF ok
        THEN /\ researchCache' = [researchCache EXCEPT
                                    ![key] = [result |-> Enhance(task.type, FreshData),
                                              stored |-> FreshData,
                                              madeFor |-> task,
                                              timestamp |-> cacheNow]]
             /\ lastAnswer' = Answer(task, entry, FALSE, TRUE, FreshData)
        ELSE /\ lastAnswer' = Answer(task, entry, FALSE, TRUE, None)
             /\ UNCHANGED researchCache
  /\ UNCHANGED cacheNow

CacheTick ==
  /\ OnlyCache
  /\ cacheNow < MaxCacheTicks * CacheTickMs
  /\ cacheNow' = cacheNow + CacheTickMs
  /\ UNCHANGED <<researchCache, lastAnswer>>

NextCache ==
  \/ \E task \in ResearchTasks, ok \in BOOLEAN : ExecuteResearch(task, ok)
  \/ CacheTick

Init ==
  /\ InitJobs /\ InitOrch /\ InitExec /\ InitCrawl /\ InitMsg /\ InitQueue
  /\ InitDomains /\ InitPatch
  /\ InitStatus
  /\ InitRate
  /\ InitLimits
  /\ InitCache

SpecJobs == Init /\ [][NextJobs]_vars

SpecOrch == Init /\ [][NextOrch]_vars

SpecExec == Init /\ [][NextExec]_vars

SpecCrawl == Init /\ [][NextCrawl]_vars

SpecMsg == Init /\ [][NextMsg]_vars

SpecQueue == Init /\ [][NextQueue]_vars

SpecForm == Init /\ [][NextForm]_vars

SpecDash == Init /\ [][NextDash]_vars

SpecPatch == Init /\ [][NextPatch]_vars

SpecStatus == Init /\ [][NextStatus]_vars

SpecRate == Init /\ [][NextRate]_vars

SpecLimits == Init /\ [][NextLimits]_vars

SpecCache == Init /\ [][NextCache]_vars

(***************************************************************************)
(* Properties of the job lifecycle (SpecJobs).                             *)
(***************************************************************************)
StoredJobs == 1..Len(jobs)

Terminal == {"completed", "failed"}

\* Whether some handler is still working on job id.
Held(id) == \E c \in Components : flow[c].job = id

\* C1: a job whose API call succeeded has the persisted status sequence
\* pending, running, completed, nothing skipped or reordered: the request
\* is sent only once 'running' is stored, and when the handler's last
\* update is stored the sequence is exactly <<pending, running, completed>>.
C1_SuccessfulJobSequence ==
  /\ \A c \in Components :
       flow[c].pc = "running" =>
         /\ statusLog[flow[c].job] = <<"pending", "running">>
         /\ jobs[flow[c].job].status = "running"
  /\ \A id \in StoredJobs :
       jobFate[id].api = "success" =>
         /\ statusLog[id] \in {<<"pending", "running">>,
                               <<"pending", "running", "completed">>}
         /\ (jobFate[id].ended = "finalized" =>
               /\ statusLog[id] = <<"pending", "running", "completed">>
               /\ jobs[id].status = "completed"
               /\ jobs[id].error = None)

C1_Witness ==
  \E id \in StoredJobs :
    /\ jobFate[id].api = "success"
    /\ jobFate[id].ended = "finalized"
    /\ statusLog[id] = <<"pending", "running", "completed">>

\* C2: when the API call of a running job throws, the job is updated to
\* 'failed' with a non-empty error.
C2_ThrowMarksJobFailed ==
  \A id \in StoredJobs :
    jobFate[id].api = "threw" =>
      /\ jobs[id].status = "failed"
      /\ jobs[id].error # None

\* C3: a running job whose handler has stopped (no handler works on it any
\* more) keeps status 'running' in every later state: no step of any other
\* component changes it.
C3_AbandonedJobStaysRunning ==
  [][\A id \in StoredJobs :
       (jobs[id].status = "running" /\ ~Held(id)) => jobs'[id].status = "running"]_vars

C3_Witness ==
  \E id \in StoredJobs, later \in StoredJobs :
    /\ id < later
    /\ jobFate[id].ended = "crashed"
    /\ jobs[id].status = "running"
    /\ jobFate[later].ended = "finalized"
    /\ uiJobs["dashboard"][id] = "running"

\* C4: a job's status only moves forward along pending, running, then
\* completed or failed; a completed or failed job is never updated again,
\* and a handler that starts never takes up an existing job (no retry).
ForwardLogs ==
  {<<"pending">>, <<"pending", "running">>,
   <<"pending", "running", "completed">>, <<"pending", "running", "failed">>}

C4_StatusOnlyMovesForward ==
  [][/\ \A id \in StoredJobs : jobs[id].status \in Terminal => jobs'[id] = jobs[id]
     /\ \A id \in 1..Len(jobs') : statusLog'[id] \in ForwardLogs
     /\ \A c \in Components :
          (flow[c].pc = "idle" /\ flow'[c].pc # "idle") => flow'[c].job \notin StoredJobs
     /\ \A c \in Components :
          flow'[c].pc # "idle" => jobs'[flow'[c].job].status \notin Terminal]_vars

C4_Witness ==
  \E id \in StoredJobs, later \in StoredJobs :
    /\ id < later
    /\ jobs[id].status = "failed"
    /\ jobs[later].status = "completed"

\* C7: a route never answers success:true for a task whose agent result
\* is a failure.
C7_RouteReturnsAgentFailure ==
  \A c \in Components :
    (flow[c].pc = "responded" /\ jobFate[flow[c].job].agent = "failed")
      => ~Truthy(flow[c].data.success)


(***************************************************************************)
(* Properties of the orchestrator (SpecOrch).                              *)
(***************************************************************************)
\* C5: executeTask(agentId, task) throws 'Agent <agentId> not found'
\* whenever agentId is not in the registry at the time of the call, and
\* then no agent's execute is invoked.
C5_ExecuteTaskThrowsWhenNotRegistered ==
  (lastCall.agentId # None /\ lastCall.agentId \notin lastCall.registry) =>
    /\ lastCall.threw
    /\ lastCall.error = "Agent " \o lastCall.agentId \o " not found"
    /\ lastCall.invoked = {}

\* An agent that was registered and executed, then unregistered, is not
\* found while another agent is still registered.
C5_Witness ==
  /\ lastCall.agentId \in AgentIds
  /\ lastCall.agentId \notin lastCall.registry
  /\ lastCall.registry # {}
  /\ \E i \in 1..Len(execLog) : execLog[i] = lastCall.agentId
  /\ lastCall.threw

(***************************************************************************)
(* Properties of execute and of the agents' external calls (SpecExec).     *)
(***************************************************************************)
\* C6: execute of the discovery, crawling and research agents never throws
\* or rejects: every call, begun by a route or by a message the agent sent
\* itself, ends with a result, and when an exception reached execute (an
\* unknown task type, a missing task, an exception a handler let through)
\* the result has success = false and a non-empty error string.
C6_ExecuteNeverThrows ==
  /\ exec.result.settled # "rejected"
  /\ exec.nested.settled # "rejected"
  /\ exec.pc = "returned" => exec.result.settled = "fulfilled"
  /\ (exec.pc = "returned" /\ exec.raised) =>
        /\ exec.result.success = FALSE
        /\ exec.result.error \notin {None, ""}

\* An unknown task type handed to the crawling agent came back as a failure.
C6_Witness ==
  /\ exec.pc = "returned"
  /\ exec.raised
  /\ exec.agent = "crawling_agent"
  /\ exec.result = [settled |-> "fulfilled", success |-> FALSE,
                    error |-> "Unknown crawling task type: discover_competitors"]

\* C8 as stated: when an external API call made during a task returned a
\* 500, the call was not retried and execute returned success = false.
C8_Http500FailsTask ==
  (exec.pc = "returned" /\ exec.saw500) =>
     /\ exec.attempts <= 1
     /\ exec.result.success = FALSE

\* C8 amended: a 500 is not retried and does not fail the task by itself.
\* A discovery search that got a 500 answers from the built-in lists and
\* discover_competitors returns success = true; deep_research returns
\* success = true; a crawl whose Tavily extract got a 500 fetches the page
\* directly, and crawl_domain succeeds exactly when that fetch gave a page.
C8_Http500FallsBack ==
  /\ exec.attempts <= 1
  /\ exec.search.status = "http500" =>
        /\ exec.search.tavily.fetches = 1
        /\ \E q \in Queries : exec.search.results = SearchWithBasicFallback(q)
  /\ (exec.pc = "returned" /\ exec.saw500) =>
        /\ exec.type \in {"discover_competitors", "deep_research"} => exec.result.success
        /\ exec.type = "crawl_domain" =>
              /\ exec.crawl.tavily = "http500" => exec.crawl.pageFetches = 1
              /\ exec.result.success <=> exec.crawl.page = "page"

\* A crawl whose Tavily extract answered 500 succeeded through the direct fetch.
C8_Witness ==
  /\ exec.pc = "returned"
  /\ exec.type = "crawl_domain"
  /\ exec.crawl.tavily = "http500"
  /\ exec.crawl.page = "page"
  /\ exec.result.success

\* C9: without a Tavily key a discovery search throws nothing: searchWithTavily
\* returns an empty list without a request, and performSearch returns a
\* non-empty list taken only from the built-in lists of known domains.
C9_NoKeySearchUsesBuiltInLists ==
  (exec.search.made /\ ~exec.search.key) =>
     /\ exec.search.tavily = [value |-> <<>>, threw |-> FALSE, fetches |-> 0]
     /\ ~exec.search.threw
     /\ Len(exec.search.results) > 0
     /\ \A i \in 1..Len(exec.search.results) : exec.search.results[i] \in BuiltInDomains

\* A search for a 'crm' query without a key answered with the crm list.
C9_Witness ==
  /\ exec.search.made
  /\ ~apiKeys.tavily
  /\ exec.search.results =
       <<"salesforce.com", "hubspot.com", "pipedrive.com", "zoho.com", "freshworks.com">>

(***************************************************************************)
(* Properties of batchCrawl (SpecCrawl).                                   *)
(***************************************************************************)
\* C10: within one batchCrawl call at most 3 crawls are in flight at any
\* time; the domains are taken in consecutive batches of at most 3; a batch
\* starts only when no crawl of an earlier batch is still in flight; and a
\* batch after the first starts no sooner than 2000 ms after the previous
\* batch settled.
C10_BatchesOfThreeWithDelay ==
  /\ Cardinality(inFlight) <= 3
  /\ \A k \in 1..Len(starts) :
       /\ starts[k].size \in 1..3
       /\ starts[k].pending = 0
       /\ starts[k].first = IF k = 1 THEN 1 ELSE starts[k - 1].first + starts[k - 1].size
       /\ k > 1 => starts[k].at >= starts[k].prevSettledAt + 2000
       /\ k > 1 => starts[k].prevSettledAt >= starts[k - 1].at
  /\ batch.pc \in {"finish", "done"} /\ batch.n > 0 =>
       starts[Len(starts)].first + starts[Len(starts)].size = batch.n + 1

\* Seven domains were crawled in three batches, of 3, 3 and 1.
C10_Witness ==
  /\ batch.pc = "done"
  /\ batch.n = 7
  /\ Len(starts) = 3
  /\ starts[3].size = 1
  /\ starts[2].at = 2000
  /\ starts[3].at >= 4000

\* C11: a batch crawl over a non-empty domain list returns exactly one
\* record per input domain, in input order; its successful and failed counts
\* sum to the number of domains; every crawl that fulfilled with a failure
\* or rejected is counted as failed, and the crawls after it still ran.
C11_OneRecordPerDomain ==
  (batch.pc = "done" /\ batch.n > 0) =>
     /\ Len(batch.results) = batch.n
     /\ \A d \in 1..batch.n : batch.results[d].domain = d
     /\ batch.successful + batch.failed = batch.n
     /\ batch.failed = batch.sawFailure + batch.sawRejected
     /\ batch.successful = Cardinality({d \in 1..batch.n : batch.results[d].success})

\* Four domains: one crawl of the first batch rejected, one failed, and the
\* crawl of the second batch succeeded.
C11_Witness ==
  /\ batch.pc = "done"
  /\ batch.n = 4
  /\ batch.sawRejected = 1
  /\ batch.sawFailure = 1
  /\ batch.failed = 2
  /\ batch.successful = 2
  /\ batch.results[4].success

(***************************************************************************)
(* Properties of message handling (SpecMsg).                               *)
(***************************************************************************)
\* C20: handling a single message terminates: for every message type
\* delivered to any agent's handleMessage, the chain of sendMessage,
\* handleMessage and execute calls it sets off is finite, so no chain goes
\* on until the call stack is exhausted.
C20_HandlingTerminates == chainEnd.how # "stack exhausted"

(***************************************************************************)
(* Properties of the message queue and its loops (SpecQueue).              *)
(***************************************************************************)
\* C12: messages added with addMessage are taken from the queue and routed
\* in exactly the order they were added, each at most once: the k-th message
\* taken is the k-th message added, the queue holds the messages not taken
\* yet in the order added, and only taken messages reach an agent.
C12_RoutedInQueueOrder ==
  /\ \A k \in 1..Len(queueLog.taken) : queueLog.taken[k].id = k
  /\ Len(messageQueue) = queueLog.added - Len(queueLog.taken)
  /\ \A j \in 1..Len(messageQueue) : messageQueue[j].id = Len(queueLog.taken) + j
  /\ queueLog.handed \subseteq 1..Len(queueLog.taken)
  /\ \A k \in 1..Len(loops) :
       loops[k].pc = "routing" => loops[k].msg.id \in queueLog.handed
  /\ \A k, j \in 1..Len(loops) :
       (k # j /\ loops[k].pc = "routing" /\ loops[j].pc = "routing")
          => loops[k].msg.id # loops[j].msg.id

\* Two messages were queued together and both reached their agents.
C12_Witness ==
  /\ queueLog.added = 2
  /\ Len(queueLog.taken) = 2
  /\ queueLog.handed = {1, 2}
  /\ \E k \in 1..Len(loops) : loops[k].pc = "routing" /\ loops[k].msg.id = 2

\* C13: a queued message whose target is not registered when it is dequeued
\* is dropped: it is off the queue, no agent's handleMessage got it, it is
\* not queued again, and no loop was lost to an error over it.
C13_UnregisteredTargetDropped ==
  \A k \in 1..Len(queueLog.taken) :
    ~queueLog.taken[k].registered =>
       /\ queueLog.taken[k].id \notin queueLog.handed
       /\ queueLog.taken[k].id \notin queueLog.lost
       /\ \A j \in 1..Len(messageQueue) : messageQueue[j].id # queueLog.taken[k].id
       /\ \A l \in 1..Len(loops) : loops[l].msg.id # queueLog.taken[k].id

\* A message to 'analysis_agent' was dropped and the message after it was
\* handed to its agent.
C13_Witness ==
  /\ Len(queueLog.taken) = 2
  /\ ~queueLog.taken[1].registered
  /\ queueLog.handed = {2}
  /\ queueLog.lost = {}

\* C19: at most one message-processing loop is active at any time, for any
\* interleaving of initialize, shutdown, startAll and stopAll: while
\* isProcessing is set, no two startMessageProcessing calls are running.
C19_SingleProcessingLoop == isProcessing => Len(loops) <= 1

(***************************************************************************)
(* Properties of the domain forms and lists (SpecForm, SpecDash).          *)
(***************************************************************************)
\* C15: adding a discovered competitor to monitoring is rejected when a
\* monitored domain with the same normalized form already exists: every
\* addCompetitorToMonitoring call made while the collection held such a
\* document ended in the warning, and created nothing.
C15_DuplicateCompetitorRejected ==
  \A k \in 1..Len(addLog) : addLog[k].existed => addLog[k].stage = "warned"

\* Inputs of DomainInputs that are not domains.
MalformedInputs ==
  {"example.com//", "example", "-bad.com", "bad-.com", "exa mple.com",
   "example..com", "ftp://example.com", "example.com/pricing"}

\* C16: submitting the add-domain form with a malformed domain is rejected
\* with the validation error, and no domain record is created.
C16_MalformedDomainRejected ==
  form.input \in MalformedInputs =>
    /\ form.error = InvalidDomain
    /\ form.created = 0
    /\ Len(domainDocs) = form.before

\* A malformed domain was rejected when the collection held a document, and
\* it still holds just that one.
C16_Witness ==
  /\ form.input = "example.com//"
  /\ form.error = InvalidDomain
  /\ form.before = 1
  /\ Len(domainDocs) = 1

\* C17: a well-formed domain entered without a protocol is stored with an
\* https:// prefix: submitting "example.com" creates a record whose domain
\* field is "https://example.com" (and likewise in capitals, or with a slash
\* at the end).
C17_BareDomainStoredWithHttps ==
  form.created # 0 =>
    /\ form.input \in {"example.com", "Example.COM", "example.com/"}
         => GetDomain(domainDocs, form.created).domain = "https://example.com"
    /\ form.input = "rival-1.io"
         => GetDomain(domainDocs, form.created).domain = "https://rival-1.io"

\* "example.com" was submitted and its record was created.
C17_Witness ==
  /\ form.input = "example.com"
  /\ form.error = ""
  /\ form.created # 0
  /\ domainDocs[form.created].domain = "https://example.com"

\* C18: after a toggle of isActive succeeds, the value written through
\* toggleDomainStatus is the value getDomain and getUserDomains read back,
\* and the value a reloaded page lists.
C18_ToggleReadBack ==
  lastToggle.ok =>
    /\ GetDomain(domainDocs, lastToggle.id).isActive = lastToggle.wrote
    /\ \E k \in 1..Len(GetUserDomains(domainDocs, SessionUser)) :
         /\ GetUserDomains(domainDocs, SessionUser)[k].id = lastToggle.id
         /\ GetUserDomains(domainDocs, SessionUser)[k].isActive = lastToggle.wrote
    /\ lastToggle.reloaded =>
         \E j \in 1..Len(pageDomains) :
           pageDomains[j] = [id |-> lastToggle.id, isActive |-> lastToggle.wrote]

\* A domain was switched off, then on, then off again, and the page was
\* loaded anew.
C18_Witness ==
  /\ lastToggle.ok
  /\ lastToggle.wrote = FALSE
  /\ lastToggle.reloaded
  /\ Len(domainDocs) = 2
  /\ \E j \in 1..Len(pageDomains) :
       pageDomains[j] = [id |-> lastToggle.id, isActive |-> FALSE]

C21_WorkingWhileExecuting ==
  \A a \in AgentIds : tasks.active[a] > 0 => agentStatus[a] = "working"

\* C25: between stopAll (or AgentManager.shutdown) and the next startAll no
\* agent task is executed through the orchestrator, and every registered
\* agent's status remains 'disabled'.
C25_NothingRunsWhileStopped ==
  /\ ~tasks.ranStopped
  /\ Stopped => \A a \in agents : agentStatus[a] = "disabled"

\* C24: after a competitor discovery, the 'new_competitors' task is
\* delivered to, and handled by, the agent registered as 'crawling_agent'.
C24_CrawlingAgentNotified ==
  lastSent.payload = "new_competitors" =>
    lastSent.to = "crawling_agent" /\ lastSent.handler = "crawling_agent"

(***************************************************************************)
(* Properties of the crawl rate limit (SpecRate).                          *)
(***************************************************************************)
\* C22: at most 10 crawl requests are sent to the same domain within any
\* 60-second window, with or without a protocol prefix on the domain.
C22_TenPerMinutePerDomain == burst.count <= RequestsPerMinute

(***************************************************************************)
(* Properties of the research agent's request limits (SpecLimits).         *)
(***************************************************************************)
\* C23: within one rate-limit window the research agent issues at most 100
\* Tavily requests and at most 50 Perplexity requests.
C23_RequestsWithinLimits ==
  /\ issued.tavily <= TavilyLimit
  /\ issued.perplexity <= PerplexityLimit

(***************************************************************************)
(* Properties of the research cache (SpecCache).                           *)
(***************************************************************************)
\* C26: a request whose cache key matches an entry stored less than one
\* hour ago is answered from the cache, with cached = true and without an
\* external request; an entry one hour old or older is not used and the
\* research is computed again.
C26_CacheHitWithinTheHour ==
  lastAnswer # NoAnswer =>
    /\ (lastAnswer.entryAge >= 0 /\ lastAnswer.entryAge < CacheTtlMs) =>
         lastAnswer.cached /\ ~lastAnswer.api
    /\ (lastAnswer.entryAge = -1 \/ lastAnswer.entryAge >= CacheTtlMs) =>
         ~lastAnswer.cached /\ lastAnswer.api

\* An entry exactly one hour old was found and the research computed again.
C26_Witness ==
  /\ lastAnswer # NoAnswer
  /\ lastAnswer.entryAge = CacheTtlMs
  /\ researchCache[KeyOf(lastAnswer.task)].timestamp = cacheNow

\* C27: a result served from the cache was computed for a task with the
\* same requested type, query, context and focus areas.
C27_ServedForTheSameTask ==
  (lastAnswer # NoAnswer /\ lastAnswer.cached) =>
    researchCache[KeyOf(lastAnswer.task)].madeFor = lastAnswer.task

\* C28: every cache hit returns data equal to what was stored.
C28_HitReturnsWhatWasStored ==
  (lastAnswer # NoAnswer /\ lastAnswer.cached) =>
    lastAnswer.data = researchCache[KeyOf(lastAnswer.task)].stored

====
